---------------------------- MODULE Spec2Model ----------------------------
(***************************************************************************)
(* A model of the Binance data collector's coordination code.              *)
(*                                                                         *)
(*  Part I   RateLimiter (services/rate-limiter.ts): one registered        *)
(*           endpoint, its token bucket, priority queue, timer and the     *)
(*           tasks in flight.  Every handler of the single-threaded event  *)
(*           loop (schedule, a task's then/catch callback, the timer       *)
(*           callback) is one atomic action; the clock advances between    *)
(*           handlers.                                                     *)
(*  Part II  calculateBackoff as a pure function of (attempt, jitter).     *)
(*  Part III AlertQueueProcessor (services/alert-queue-processor.ts) over  *)
(*           the alert_queue table (services/database.ts).  Every await    *)
(*           of a pass is a point where other handlers may run.            *)
(*  Part IV  the append-only tables of DatabaseManager (trade_data,        *)
(*           agg_trades, liquidation_events) and the paged read by rowid.  *)
(*  Part V   CvdAggregationWorker (services/cvd-aggregation-worker.ts)     *)
(*           over trade_data and processing_state.                         *)
(*  Part VI  DatabaseManager.runMigrations over schema_migrations.         *)
(*  Part VII SymbolManager: updateSymbols over the symbols table and the   *)
(*           timers of scheduleDailyUpdate.                                *)
(*  Part VIII TradeDataCollector: the buffer, its flushes and the inserts  *)
(*           into trade_data they make.                                    *)
(*  Part IX  BinanceTradeWebSocketClient: one venue connection, its        *)
(*           sockets and its reconnect and heartbeat timers.               *)
(*  Part X   the alert gating of CvdAggregationWorker: the suppression     *)
(*           query of the store and the log-domain threshold.  The         *)
(*           aggregator, which is not part of these sources, is modelled   *)
(*           by the alert decision the specification gives it.             *)
(*  Part XI  DatabaseBackupScheduler: its timeouts and runs, and the       *)
(*           retention pass over the backup directory.                     *)
(*  Part XII the transaction chain of DatabaseManager: withTransaction     *)
(*           blocks, the writes issued outside it and runMigrations, on    *)
(*           the store's one connection.                                   *)
(*  Part XIII AggTradeDatabaseManager: one store per asset, the promise    *)
(*           chain that orders its bulk inserts, and close().              *)
(*  Part XIV AggTradeCollector: the initial and scheduled cycles, the page *)
(*           loop of each target with its retries, over the stores of      *)
(*           Part XIII and an exchange that answers by startTime.          *)
(*  Part XV  AlertService.sendCvdAlert: the webhook posts of postWithRetry *)
(*           and the alert_history row.                                    *)
(*                                                                         *)
(* In Parts I to IV store operations are taken to succeed; from Part V on  *)
(* a store call may reject where the code awaits it.  The alert sink and   *)
(* the rate limited tasks may fail.                                        *)
(***************************************************************************)
EXTENDS Integers, Sequences, FiniteSets, TLC

VARIABLES
  \* ---- Part I: RateLimiter
  now,          \* Date.now(), in ms
  endpoint,     \* EndpointState of the one registered endpoint
  inflight,     \* QueueItems whose task() was started and has not settled
  requests,     \* per schedule() call: the caller's promise and its history
  pushCount,    \* number of queue.push calls so far (insertion stamps)
  execLog,      \* task starts that can still share a time window with a later one
  \* ---- Part II: calculateBackoff
  bk,           \* [attempt, jitter, backoff, done]
  \* ---- Part III: AlertQueueProcessor and the alert_queue table
  alertQueue,   \* the rows of alert_queue; a row's id is its index
  running,      \* AlertQueueProcessor.running
  processing,   \* AlertQueueProcessor.processing
  timerPending, \* this.timer refers to a timeout that has not fired
  orphanTimers, \* pending timeouts that this.timer no longer refers to
  pc,           \* where the pass in progress is suspended ("idle" when no pass)
  exhausted,    \* records of the batch still to be closed as exhausted
  pending,      \* records of the batch still to be dispatched
  cur,          \* the record being handled, with the sink's error message
  sink,         \* per row: sendCvdAlert invocations and successes
  pass,         \* what the current (or last) pass fetched, sent and emitted
  \* ---- Part IV: the append-only tables of the store
  tradeData,    \* the rows of trade_data, each with its rowid
  aggTrades,    \* the rows of agg_trades
  liquidationEvents, \* the rows of liquidation_events
  dbLog,        \* per table: the rows in the order their inserts took effect
  pager,        \* a reader that pages through trade_data by rowid
  \* ---- Part V: CvdAggregationWorker
  processingState, \* processing_state.last_row_id under ('cvd_aggregator', id)
  cw,           \* the worker's fields and the locals of the pass in progress
  fed,          \* per aggregator: the rowIds handed to enqueueTrades, in order
  cwDone,       \* per aggregator: the rowIds of the batches that completed
  \* ---- Part VI: runMigrations
  schema,       \* the tables and the columns added later that the file holds
  schemaMigrations, \* the ids in schema_migrations, in the order they were recorded
  mg,           \* the run of runMigrations in progress
  \* ---- Part VII: SymbolManager
  symbols,      \* the symbols table: per (symbol, market_type) its status, if stored
  sm,           \* the manager's clock, timers and the update in progress
  \* ---- Part VIII: TradeDataCollector
  tc,           \* the collector's buffer, its flushes in flight and what it emitted
  \* ---- Part IX: BinanceTradeWebSocketClient, one venue connection
  socks,        \* the sockets created for the connection, in order
  wc,           \* the MarketConnection and its pending timers
  \* ---- Part X: alert gating
  alertRows,    \* the rows of alert_queue that the gating reads and writes
  alertHistory, \* the rows of alert_history
  al,           \* the worker's clock and flags, and the latest store query or alert decision
  \* ---- Part XI: DatabaseBackupScheduler
  backupFiles,  \* the file names of the backup directory
  bs,           \* the scheduler: its timeouts, its runs in progress and the clock
  \* ---- Part XII: the transaction chain
  txLog,        \* the statements executed on the connection
  tx,           \* the chain's blocks, the connection's transaction and the other writers
  \* ---- Part XIII: AggTradeDatabaseManager
  stores,       \* per asset: the handle's store, its rows and its promise chain
  ad,           \* the calls made on the manager and the progress of close()
  \* ---- Part XIV: AggTradeCollector
  ag,           \* the collector: its cycle, the page loop's position and the clock
  \* ---- Part XV: AlertService
  sv            \* the service: the call in progress, its posts and the history rows

rlVars == <<now, endpoint, inflight, requests, pushCount, execLog>>
bkVars == <<bk>>
aqVars == <<alertQueue, running, processing, timerPending, orphanTimers, pc,
            exhausted, pending, cur, sink, pass>>
dbVars == <<tradeData, aggTrades, liquidationEvents, dbLog, pager>>
cwVars == <<processingState, cw, fed, cwDone>>
mgVars == <<schema, schemaMigrations, mg>>
smVars == <<symbols, sm>>
tcVars == <<tc>>
wcVars == <<socks, wc>>
alVars == <<alertRows, alertHistory, al>>
bsVars == <<backupFiles, bs>>
txVars == <<txLog, tx>>
adVars == <<stores, ad>>
agVars == <<ag>>
svVars == <<sv>>
vars ==
  <<rlVars, bkVars, aqVars, dbVars, cwVars, mgVars, smVars, tcVars, wcVars, alVars,
    bsVars, txVars, adVars, agVars, svVars>>

\* what the actions of one part leave alone
exceptRL ==
  <<bkVars, aqVars, dbVars, cwVars, mgVars, smVars, tcVars, wcVars, alVars,
    bsVars, txVars, adVars, agVars, svVars>>
exceptBK ==
  <<rlVars, aqVars, dbVars, cwVars, mgVars, smVars, tcVars, wcVars, alVars,
    bsVars, txVars, adVars, agVars, svVars>>
exceptAQ ==
  <<rlVars, bkVars, dbVars, cwVars, mgVars, smVars, tcVars, wcVars, alVars,
    bsVars, txVars, adVars, agVars, svVars>>
exceptDB ==
  <<rlVars, bkVars, aqVars, cwVars, mgVars, smVars, tcVars, wcVars, alVars,
    bsVars, txVars, adVars, agVars, svVars>>
exceptCW ==
  <<rlVars, bkVars, aqVars, dbVars, mgVars, smVars, tcVars, wcVars, alVars,
    bsVars, txVars, adVars, agVars, svVars>>
exceptMG ==
  <<rlVars, bkVars, aqVars, dbVars, cwVars, smVars, tcVars, wcVars, alVars,
    bsVars, txVars, adVars, agVars, svVars>>
exceptSM ==
  <<rlVars, bkVars, aqVars, dbVars, cwVars, mgVars, tcVars, wcVars, alVars,
    bsVars, txVars, adVars, agVars, svVars>>
\* the collector writes trade_data, so the store's variables are not in its list
exceptTC ==
  <<rlVars, bkVars, aqVars, cwVars, mgVars, smVars, wcVars, alVars, bsVars, txVars,
    adVars, agVars, svVars>>
exceptWC ==
  <<rlVars, bkVars, aqVars, dbVars, cwVars, mgVars, smVars, tcVars, alVars, bsVars,
    txVars, adVars, agVars, svVars>>
exceptAL ==
  <<rlVars, bkVars, aqVars, dbVars, cwVars, mgVars, smVars, tcVars, wcVars, bsVars,
    txVars, adVars, agVars, svVars>>
exceptBS ==
  <<rlVars, bkVars, aqVars, dbVars, cwVars, mgVars, smVars, tcVars, wcVars, alVars,
    txVars, adVars, agVars, svVars>>
exceptTX ==
  <<rlVars, bkVars, aqVars, dbVars, cwVars, mgVars, smVars, tcVars, wcVars, alVars,
    bsVars, adVars, agVars, svVars>>
exceptAD ==
  <<rlVars, bkVars, aqVars, dbVars, cwVars, mgVars, smVars, tcVars, wcVars, alVars,
    bsVars, txVars, agVars, svVars>>
\* the collector writes the stores and leaves the manager's call record alone
exceptAG ==
  <<rlVars, bkVars, aqVars, dbVars, cwVars, mgVars, smVars, tcVars, wcVars, alVars,
    bsVars, txVars, ad, svVars>>
exceptSV ==
  <<rlVars, bkVars, aqVars, dbVars, cwVars, mgVars, smVars, tcVars, wcVars, alVars,
    bsVars, txVars, adVars, agVars>>

---------------------------------------------------------------------------
\* Bounds of the model
MaxRequests == 2     \* schedule() calls
MaxRetries == 1      \* 429 answers per request
MaxNow == 1500       \* the clock stops here
Capacities == {1, 2}        \* capacities registered
Weights == {1, 2}           \* request weights
Priorities == {0, 1}        \* request priorities
TickSteps == {500, 1000}    \* ms between two handlers
JitterSamples == {0, 500}   \* Math.random() * 1000, sampled

\* Program constants
MAX_BACKOFF_MS == 60000
BaseBackoffMs == 1000
MinTimerDelayMs == 10
RefillIntervalMs == 1000

NoTimer == -1

Min(a, b) == IF a < b THEN a ELSE b
Max(a, b) == IF a > b THEN a ELSE b

RECURSIVE Pow2(_)
Pow2(n) == IF n <= 0 THEN 1 ELSE 2 * Pow2(n - 1)

---------------------------------------------------------------------------
\* Part I: RateLimiter

\* refillTokens: whole intervals only
RefillTokens(ep) ==
  IF now - ep.lastRefill >= ep.refillIntervalMs
  THEN LET intervals == (now - ep.lastRefill) \div ep.refillIntervalMs
       IN [ep EXCEPT !.tokens = Min(ep.capacity, ep.tokens + ep.capacity * intervals),
                     !.lastRefill = ep.lastRefill + ep.refillIntervalMs * intervals]
  ELSE ep

\* a scheduleTimer that sets no timeout
ScheduleTimerNever(ep, delay) == ep

\* scheduleTimer: a pending timer is never replaced
ScheduleTimer(ep, delay) ==
  IF ep.timer # NoTimer THEN ep ELSE [ep EXCEPT !.timer = now + delay]

\* a queue that is never sorted: items stay in the order of their push
KeepPushOrder(q) == q

\* queue.sort((a, b) => a.request.priority - b.request.priority): Array.prototype.sort
\* is stable, so items of equal priority keep their order
RECURSIVE InsertByPriority(_, _)
InsertByPriority(sorted, item) ==
  IF sorted = <<>> THEN <<item>>
  ELSE LET last == sorted[Len(sorted)]
       IN IF last.priority <= item.priority
          THEN Append(sorted, item)
          ELSE Append(InsertByPriority(SubSeq(sorted, 1, Len(sorted) - 1), item), last)

RECURSIVE SortFrom(_, _)
SortFrom(sorted, rest) ==
  IF rest = <<>> THEN sorted
  ELSE SortFrom(InsertByPriority(sorted, Head(rest)), Tail(rest))

SortByPriority(q) == SortFrom(<<>>, q)

\* a token test that ignores the weight: any token left lets the item start
HasAnyToken(ep, item) == ep.tokens > 0

\* the token test of process(): endpoint.tokens < nextItem.request.weight schedules a timer
HasTokens(ep, item) == ~(ep.tokens < item.weight)

\* the backoff test of process(): nextItem.nextAttemptAt > now schedules a timer
IsDue(item) == ~(item.nextAttemptAt > now)

\* an error test that takes every failure for a rate-limit answer
IsAnyError(outcome) == outcome \in {"r429", "err"}

\* isRateLimitError: error.response.status === 429
IsRateLimitError(outcome) == outcome = "r429"

\* a backoff whose jitter is added after the cap instead of under it
CalculateBackoffUncapped(attempt, jitter) ==
  Min(MAX_BACKOFF_MS, BaseBackoffMs * Pow2(attempt - 1)) + jitter

\* calculateBackoff
CalculateBackoff(attempt, jitter) ==
  LET base == Min(MAX_BACKOFF_MS, BaseBackoffMs * Pow2(attempt - 1))
  IN Min(MAX_BACKOFF_MS, base + jitter)

\* process(endpoint) up to the call of item.task(): the endpoint afterwards and the
\* item whose task was started (<<>> when none was)
Process(ep0) ==
  LET ep == RefillTokens(ep0)
  IN IF Len(ep.queue) = 0 THEN [ep |-> ep, started |-> <<>>]
     ELSE LET nextItem == Head(ep.queue)
          IN IF ~IsDue(nextItem)
             THEN [ep |-> ScheduleTimer(ep, nextItem.nextAttemptAt - now),
                   started |-> <<>>]
             ELSE IF ~HasTokens(ep, nextItem)
             THEN [ep |-> ScheduleTimer(ep,
                            Max(ep.refillIntervalMs - (now - ep.lastRefill), MinTimerDelayMs)),
                   started |-> <<>>]
             ELSE [ep |-> [ep EXCEPT !.queue = Tail(ep.queue),
                                     !.tokens = ep.tokens - nextItem.weight],
                   started |-> <<nextItem>>]

\* what a handler that ends in process(endpoint) leaves behind; reqs, fl and log are
\* the requests, the tasks in flight and the execution log after the handler's own work
AfterProcess(ep0, reqs, fl, log) ==
  LET r == Process(ep0)
  IN /\ endpoint' = r.ep
     /\ requests' = reqs
     /\ IF r.started = <<>>
        THEN /\ inflight' = fl
             /\ execLog' = log
        ELSE LET item == r.started[1]
             IN /\ inflight' = fl \cup {item}
                /\ execLog' = Append(log, [id |-> item.id, at |-> now,
                                           weight |-> item.weight, result |-> "running"])

\* schedule(request, task)
Schedule(w, p) ==
  /\ Len(requests) < MaxRequests
  /\ LET id == Len(requests) + 1
         queueItem == [id |-> id, weight |-> w, priority |-> p, attempt |-> 0,
                       nextAttemptAt |-> now, seq |-> pushCount + 1]
         reqs == Append(requests,
                   [weight |-> w, priority |-> p, promise |-> "pending", value |-> 0,
                    settles |-> 0, results |-> <<>>])
     IN AfterProcess([endpoint EXCEPT
                        !.queue = SortByPriority(Append(endpoint.queue, queueItem))],
                     reqs, inflight, execLog)
  /\ pushCount' = pushCount + 1
  /\ UNCHANGED <<now, exceptRL>>

\* the log entry of the run of item that is in flight gets its result
SetResult(log, item, res) ==
  [i \in 1..Len(log) |->
     IF log[i].id = item.id /\ log[i].result = "running"
     THEN [log[i] EXCEPT !.result = res] ELSE log[i]]

\* .then((result) => { item.resolve(result); this.process(endpoint); })
\* the task's value is modelled as the number of the run that produced it
TaskSucceeds(item) ==
  /\ item \in inflight
  /\ LET run == Len(requests[item.id].results) + 1
         reqs == [requests EXCEPT ![item.id].results = Append(@, "ok"),
                                  ![item.id].promise = "resolved",
                                  ![item.id].value = run,
                                  ![item.id].settles = @ + 1]
     IN AfterProcess(endpoint, reqs, inflight \ {item}, SetResult(execLog, item, "ok"))
  /\ UNCHANGED <<now, pushCount, exceptRL>>

\* .catch((error) => { ... this.process(endpoint); }) for an error of either kind:
\* a 429 puts the item back, anything else rejects the caller's promise
TaskFails(item, outcome, jitter) ==
  /\ item \in inflight
  /\ IF IsRateLimitError(outcome)
     THEN /\ item.attempt < MaxRetries
          /\ LET attempt == item.attempt + 1
                 backoff == CalculateBackoff(attempt, jitter)
                 again == [item EXCEPT !.attempt = attempt,
                                       !.nextAttemptAt = now + backoff,
                                       !.seq = pushCount + 1]
                 ep1 == [endpoint EXCEPT !.queue = SortByPriority(Append(endpoint.queue, again))]
                 reqs == [requests EXCEPT ![item.id].results = Append(@, outcome)]
             IN AfterProcess(ScheduleTimer(ep1, backoff), reqs, inflight \ {item},
                             SetResult(execLog, item, "failed"))
          /\ pushCount' = pushCount + 1
     ELSE /\ LET reqs == [requests EXCEPT ![item.id].results = Append(@, outcome),
                                          ![item.id].promise = "rejected",
                                          ![item.id].settles = @ + 1]
             IN AfterProcess(endpoint, reqs, inflight \ {item},
                             SetResult(execLog, item, "failed"))
          /\ UNCHANGED pushCount
  /\ UNCHANGED <<now, exceptRL>>

\* the setTimeout callback of scheduleTimer; a timer fires at its time or later
EndpointTimerFires ==
  /\ endpoint.timer # NoTimer
  /\ now >= endpoint.timer
  /\ AfterProcess([endpoint EXCEPT !.timer = NoTimer], requests, inflight, execLog)
  /\ UNCHANGED <<now, pushCount, exceptRL>>

\* entries of the log that a later start can still share a window of one refill
\* interval with, and the runs still in flight
Recent(log, t) ==
  SelectSeq(log, LAMBDA e : e.result = "running" \/ e.at + endpoint.refillIntervalMs > t)

\* the clock advances between handlers
Tick(d) ==
  /\ now + d <= MaxNow
  /\ now' = now + d
  /\ execLog' = Recent(execLog, now + d)
  /\ UNCHANGED <<endpoint, inflight, requests, pushCount, exceptRL>>

NextRL ==
  \/ \E w \in Weights, p \in Priorities : Schedule(w, p)
  \/ \E item \in inflight : TaskSucceeds(item)
  \/ \E item \in inflight, outcome \in {"r429", "err"}, jitter \in JitterSamples :
       TaskFails(item, outcome, jitter)
  \/ EndpointTimerFires
  \/ \E d \in TickSteps : Tick(d)

InitRL ==
  /\ now = 0
  /\ \E c \in Capacities :
       endpoint = [capacity |-> c, tokens |-> c, refillIntervalMs |-> RefillIntervalMs,
                   lastRefill |-> 0, queue |-> <<>>, timer |-> NoTimer]
  /\ inflight = {}
  /\ requests = <<>>
  /\ pushCount = 0
  /\ execLog = <<>>

---------------------------------------------------------------------------
\* Part II: calculateBackoff on its own
MaxAttemptK == 10    \* attempts 1..MaxAttemptK: the cap is reached from attempt 7 on
JitterAll == {0, 1, 999} \cup {100 * j : j \in 1..9}   \* Math.random() * 1000, sampled

InitBK == bk = [attempt |-> 0, jitter |-> 0, backoff |-> 0, done |-> FALSE]

\* the catch handler's two lines: item.attempt += 1; backoff = calculateBackoff(item.attempt)
Backoff(jitter) ==
  /\ bk.attempt < MaxAttemptK
  /\ bk' = [attempt |-> bk.attempt + 1, jitter |-> jitter,
            backoff |-> CalculateBackoff(bk.attempt + 1, jitter), done |-> TRUE]
  /\ UNCHANGED exceptBK

---------------------------------------------------------------------------
\* Part III: AlertQueueProcessor over alert_queue
MaxAlerts == 3       \* rows of alert_queue
MaxAttempts == 2     \* options.maxAttempts
BatchSize == 2       \* options.batchSize
MaxTimers == 2       \* pending timeouts of the dispatcher
Timestamps == {1, 2}        \* payload.timestamp of an enqueued alert
ErrorLengths == {5, 513}    \* lengths of the sink's error messages

MaxErrorLength == 512
EllipsisLength == 3
RetryLimitLength == 19

Null == "NULL"
CurrentTimestamp == "CURRENT_TIMESTAMP"
NoText == <<>>       \* NULL in the TEXT column last_error; <<str>> is the text str

\* a string: the first `kept` characters of `text` followed by `dots` full stops
Str(text, len) == [text |-> text, kept |-> len, dots |-> 0]
StrLen(str) == str.kept + str.dots
RetryLimitReached == Str("Retry limit reached", RetryLimitLength)

\* a truncation that keeps maxLength characters and then appends the ellipsis
TruncateThenAppend(message, maxLength) ==
  IF StrLen(message) <= maxLength THEN message
  ELSE [text |-> message.text, kept |-> maxLength, dots |-> EllipsisLength]

\* truncateErrorMessage(message, maxLength = 512)
TruncateErrorMessage(message, maxLength) ==
  IF StrLen(message) <= maxLength THEN message
  ELSE [text |-> message.text, kept |-> Max(0, maxLength - EllipsisLength),
        dots |-> EllipsisLength]

\* ORDER BY timestamp ASC, id ASC
OrderedBefore(q, a, b) ==
  \/ q[a].timestamp < q[b].timestamp
  \/ q[a].timestamp = q[b].timestamp /\ a < b

RECURSIVE SortIds(_, _)
SortIds(q, ids) ==
  IF ids = {} THEN <<>>
  ELSE LET first == CHOOSE a \in ids : \A b \in ids \ {a} : OrderedBefore(q, a, b)
       IN <<first>> \o SortIds(q, ids \ {first})

\* a query without its WHERE clause: processed rows are fetched as well
IsAnyRow(row) == row.processedAt \in {Null, CurrentTimestamp}

\* WHERE processed_at IS NULL
IsUnprocessed(row) == row.processedAt = Null

\* a query that orders by id alone
RECURSIVE IdsAscending(_)
IdsAscending(ids) ==
  IF ids = {} THEN <<>>
  ELSE LET first == CHOOSE a \in ids : \A b \in ids : a <= b
       IN <<first>> \o IdsAscending(ids \ {first})

GetPendingAlertsById(q, limit) ==
  LET ids == IdsAscending({id \in 1..Len(q) : q[id].processedAt = Null})
      n == Min(Len(ids), Max(1, limit))
  IN [k \in 1..n |-> [id |-> ids[k], timestamp |-> q[ids[k]].timestamp,
                      attemptCount |-> q[ids[k]].attemptCount]]

\* getPendingAlerts(limit): the records of the first `limit` unprocessed rows
GetPendingAlerts(q, limit) ==
  LET ids == SortIds(q, {id \in 1..Len(q) : IsUnprocessed(q[id])})
      n == Min(Len(ids), Max(1, limit))
  IN [k \in 1..n |-> [id |-> ids[k], timestamp |-> q[ids[k]].timestamp,
                      attemptCount |-> q[ids[k]].attemptCount]]

\* an attempt that is never counted
MarkAlertAttemptUncounted(q, id) == q

\* markAlertAttempt(id)
MarkAlertAttempt(q, id) == [q EXCEPT ![id].attemptCount = @ + 1]

\* markAlertProcessed(id, { clearError })
MarkAlertProcessed(q, id, clearError) ==
  [q EXCEPT ![id].processedAt = CurrentTimestamp,
            ![id].lastError = IF clearError THEN NoText ELSE @]

\* markAlertFailure(id, error)
MarkAlertFailure(q, id, error) ==
  [q EXCEPT ![id].lastError = <<TruncateErrorMessage(error, MaxErrorLength)>>]

\* records.filter((record) => record.attemptCount >= this.maxAttempts)
IsExhausted(record) == record.attemptCount >= MaxAttempts

\* records.filter((record) => record.attemptCount < this.maxAttempts)
IsDispatchable(record) == record.attemptCount < MaxAttempts

\* a limit test that forgets the attempt just made
ReachesLimitLate(record) == record.attemptCount >= MaxAttempts

\* record.attemptCount + 1 >= this.maxAttempts, on the record as it was fetched
ReachesLimit(record) == record.attemptCount + 1 >= MaxAttempts

\* no record in hand
NoRecord == [id |-> 0, timestamp |-> 0, attemptCount |-> 0, message |-> Str("", 0)]
InHand(record) == [id |-> record.id, timestamp |-> record.timestamp,
                   attemptCount |-> record.attemptCount, message |-> Str("", 0)]

\* enqueueAlert(alertType, payload), called by the CVD worker
EnqueueAlert(ts) ==
  /\ Len(alertQueue) < MaxAlerts
  /\ alertQueue' = Append(alertQueue, [timestamp |-> ts, attemptCount |-> 0,
                                       lastError |-> NoText, processedAt |-> Null])
  /\ sink' = Append(sink, [sends |-> 0, successes |-> 0])
  /\ UNCHANGED <<running, processing, timerPending, orphanTimers, pc, exhausted,
                 pending, cur, pass, exceptAQ>>

\* a scheduleNext() that sets no timeout
ScheduleNextNever == UNCHANGED <<timerPending, orphanTimers>>

\* scheduleNext(): a new timeout; the one this.timer referred to stays pending
ScheduleNext ==
  IF running'
  THEN /\ timerPending' = TRUE
       /\ orphanTimers' = IF timerPending THEN orphanTimers + 1 ELSE orphanTimers
  ELSE UNCHANGED <<timerPending, orphanTimers>>

\* processQueue() up to its first await, when no pass is in progress
BeginPass ==
  /\ processing' = TRUE
  /\ pc' = "fetch"
  /\ UNCHANGED <<alertQueue, exhausted, pending, cur, sink, pass>>

\* start(): with a pass in progress processQueue() returns at once and scheduleNext()
\* follows; otherwise a pass begins and scheduleNext() follows its end
Start ==
  /\ ~running
  /\ orphanTimers + (IF timerPending THEN 1 ELSE 0) < MaxTimers
  /\ running' = TRUE
  /\ IF processing
     THEN /\ ScheduleNext
          /\ UNCHANGED <<alertQueue, processing, pc, exhausted, pending, cur, sink, pass>>
     ELSE /\ BeginPass
          /\ UNCHANGED <<timerPending, orphanTimers>>
  /\ UNCHANGED <<exceptAQ>>

\* stop(): clearTimeout(this.timer); the pass in progress ends at its next record
Stop ==
  /\ running
  /\ running' = FALSE
  /\ timerPending' = FALSE
  /\ UNCHANGED <<alertQueue, processing, orphanTimers, pc, exhausted, pending, cur,
                 sink, pass, exceptAQ>>

\* the timeout callback of scheduleNext(); timeouts fire in the order they were set
TimerFires ==
  /\ orphanTimers > 0 \/ timerPending
  /\ UNCHANGED running
  /\ IF processing
     THEN /\ IF orphanTimers > 0
             THEN \* the fired timeout was an orphan, the new one takes this.timer
                  /\ timerPending' = (running \/ timerPending)
                  /\ orphanTimers' = IF running /\ timerPending
                                     THEN orphanTimers ELSE orphanTimers - 1
             ELSE /\ timerPending' = running
                  /\ UNCHANGED orphanTimers
          /\ UNCHANGED <<alertQueue, processing, pc, exhausted, pending, cur, sink, pass>>
     ELSE /\ BeginPass
          /\ IF orphanTimers > 0
             THEN orphanTimers' = orphanTimers - 1 /\ UNCHANGED timerPending
             ELSE timerPending' = FALSE /\ UNCHANGED orphanTimers
  /\ UNCHANGED <<exceptAQ>>

\* const records = await getPendingAlerts(this.batchSize), and the two filters
Fetch ==
  /\ pc = "fetch"
  /\ LET records == GetPendingAlerts(alertQueue, BatchSize)
     IN /\ exhausted' = SelectSeq(records, IsExhausted)
        /\ pending' = SelectSeq(records, IsDispatchable)
        /\ pass' = [unprocessed |-> {id \in 1..Len(alertQueue) :
                                        alertQueue[id].processedAt = Null},
                    fetched |-> pass.fetched \cup {records[k].id : k \in 1..Len(records)},
                    sent |-> <<>>, failures |-> {}, alertFailed |-> {}, alertSent |-> {}]
  /\ pc' = "loop"
  /\ cur' = NoRecord
  /\ UNCHANGED <<alertQueue, running, processing, timerPending, orphanTimers, sink,
                 exceptAQ>>

\* for (const record of exhausted): await markAlertFailure(record.id, 'Retry limit reached')
ExhaustedFailure ==
  /\ pc = "loop"
  /\ exhausted # <<>>
  /\ cur' = InHand(Head(exhausted))
  /\ exhausted' = Tail(exhausted)
  /\ alertQueue' = MarkAlertFailure(alertQueue, Head(exhausted).id, RetryLimitReached)
  /\ pc' = "exhaustedProcessed"
  /\ UNCHANGED <<running, processing, timerPending, orphanTimers, pending, sink, pass,
                 exceptAQ>>

\* await markAlertProcessed(record.id, { clearError: false }) of an exhausted record
ExhaustedProcessed ==
  /\ pc = "exhaustedProcessed"
  /\ alertQueue' = MarkAlertProcessed(alertQueue, cur.id, FALSE)
  /\ pc' = "loop"
  /\ cur' = NoRecord
  /\ UNCHANGED <<running, processing, timerPending, orphanTimers, exhausted, pending,
                 sink, pass, exceptAQ>>

\* for (const record of pending): if (!this.running) break; processRecord(record) up to
\* await markAlertAttempt(record.id)
AttemptRecord ==
  /\ pc = "loop"
  /\ exhausted = <<>>
  /\ pending # <<>>
  /\ running
  /\ cur' = InHand(Head(pending))
  /\ pending' = Tail(pending)
  /\ alertQueue' = MarkAlertAttempt(alertQueue, Head(pending).id)
  /\ pc' = "send"
  /\ UNCHANGED <<running, processing, timerPending, orphanTimers, exhausted, sink, pass,
                 exceptAQ>>

\* await this.alertService.sendCvdAlert(record.payload) returns
SendSucceeds ==
  /\ pc = "send"
  /\ sink' = [sink EXCEPT ![cur.id].sends = @ + 1, ![cur.id].successes = @ + 1]
  /\ pass' = [pass EXCEPT !.sent = Append(@, cur.id)]
  /\ pc' = "sentProcessed"
  /\ UNCHANGED <<alertQueue, running, processing, timerPending, orphanTimers, exhausted,
                 pending, cur, exceptAQ>>

\* await this.alertService.sendCvdAlert(record.payload) throws an error with a message
SendFails(len) ==
  /\ pc = "send"
  /\ sink' = [sink EXCEPT ![cur.id].sends = @ + 1]
  /\ pass' = [pass EXCEPT !.sent = Append(@, cur.id),
                          !.failures = @ \cup {[id |-> cur.id, message |-> Str("sink error", len)]}]
  /\ cur' = [cur EXCEPT !.message = Str("sink error", len)]
  /\ pc' = "failure"
  /\ UNCHANGED <<alertQueue, running, processing, timerPending, orphanTimers, exhausted,
                 pending, exceptAQ>>

\* await markAlertProcessed(record.id); this.emit('alertSent', record)
SentProcessed ==
  /\ pc = "sentProcessed"
  /\ alertQueue' = MarkAlertProcessed(alertQueue, cur.id, TRUE)
  /\ pass' = [pass EXCEPT !.alertSent = @ \cup {cur.id}]
  /\ pc' = "loop"
  /\ cur' = NoRecord
  /\ UNCHANGED <<running, processing, timerPending, orphanTimers, exhausted, pending,
                 sink, exceptAQ>>

\* catch: await markAlertFailure(record.id, message); below the limit alertFailed is
\* emitted right away
FailureRecorded ==
  /\ pc = "failure"
  /\ alertQueue' = MarkAlertFailure(alertQueue, cur.id, cur.message)
  /\ IF ReachesLimit(cur)
     THEN pc' = "failureProcessed" /\ UNCHANGED <<cur, pass>>
     ELSE /\ pc' = "loop"
          /\ cur' = NoRecord
          /\ pass' = [pass EXCEPT !.alertFailed = @ \cup {cur.id}]
  /\ UNCHANGED <<running, processing, timerPending, orphanTimers, exhausted, pending,
                 sink, exceptAQ>>

\* catch: await markAlertProcessed(record.id, { clearError: false }); emit alertFailed
FailureProcessed ==
  /\ pc = "failureProcessed"
  /\ alertQueue' = MarkAlertProcessed(alertQueue, cur.id, FALSE)
  /\ pass' = [pass EXCEPT !.alertFailed = @ \cup {cur.id}]
  /\ pc' = "loop"
  /\ cur' = NoRecord
  /\ UNCHANGED <<running, processing, timerPending, orphanTimers, exhausted, pending,
                 sink, exceptAQ>>

\* the loop ends (no record left, or stop() was called): emit idle; finally
\* processing = false; the caller's scheduleNext() when still running
EndPass ==
  /\ pc = "loop"
  /\ exhausted = <<>>
  /\ pending = <<>> \/ ~running
  /\ processing' = FALSE
  /\ pc' = "idle"
  /\ UNCHANGED running
  /\ ScheduleNext
  /\ UNCHANGED <<alertQueue, exhausted, pending, cur, sink, pass, exceptAQ>>

NextAQ ==
  \/ \E ts \in Timestamps : EnqueueAlert(ts)
  \/ Start
  \/ Stop
  \/ TimerFires
  \/ Fetch
  \/ ExhaustedFailure
  \/ ExhaustedProcessed
  \/ AttemptRecord
  \/ SendSucceeds
  \/ \E len \in ErrorLengths : SendFails(len)
  \/ SentProcessed
  \/ FailureRecorded
  \/ FailureProcessed
  \/ EndPass

\* a row left unprocessed by an earlier run with its attempts used up (the process
\* ended inside a pass, or ALERT_QUEUE_MAX_ATTEMPTS was lowered since)
LeftoverRow == [timestamp |-> 1, attemptCount |-> MaxAttempts,
                lastError |-> <<Str("sink error", 5)>>, processedAt |-> Null]

\* the dispatcher as constructed, over an empty table or one with a leftover row
InitAQ ==
  /\ alertQueue \in {<<>>, <<LeftoverRow>>}
  /\ sink = [id \in 1..Len(alertQueue) |-> [sends |-> 0, successes |-> 0]]
  /\ running = FALSE
  /\ processing = FALSE
  /\ timerPending = FALSE
  /\ orphanTimers = 0
  /\ pc = "idle"
  /\ exhausted = <<>>
  /\ pending = <<>>
  /\ cur = NoRecord
  /\ pass = [unprocessed |-> {}, fetched |-> {}, sent |-> <<>>, failures |-> {},
             alertFailed |-> {}, alertSent |-> {}]

\* the parts a specification leaves alone
QuietRL ==
  /\ now = 0
  /\ endpoint = [capacity |-> 1, tokens |-> 1, refillIntervalMs |-> RefillIntervalMs,
                 lastRefill |-> 0, queue |-> <<>>, timer |-> NoTimer]
  /\ inflight = {}
  /\ requests = <<>>
  /\ pushCount = 0
  /\ execLog = <<>>

QuietAQ ==
  /\ alertQueue = <<>>
  /\ sink = <<>>
  /\ running = FALSE
  /\ processing = FALSE
  /\ timerPending = FALSE
  /\ orphanTimers = 0
  /\ pc = "idle"
  /\ exhausted = <<>>
  /\ pending = <<>>
  /\ cur = NoRecord
  /\ pass = [unprocessed |-> {}, fetched |-> {}, sent |-> <<>>, failures |-> {},
             alertFailed |-> {}, alertSent |-> {}]

---------------------------------------------------------------------------
\* Part IV: the append-only tables of DatabaseManager
MaxInserts == 4      \* rows handed to the save calls, over the three tables
MaxBatch == 2        \* rows of one save call
PageLimits == {1, 2}        \* limit of the paging reader

NoLimit == 1000000   \* a limit above any number of rows
Undefined == [tradeId |-> -1, tradeTime |-> -1]   \* no checkpoint

\* String.prototype.toUpperCase on the symbols in use
ToUpperCase(symbol) ==
  CASE symbol = "btcusdt" -> "BTCUSDT"
    [] symbol = "ethusdt" -> "ETHUSDT"
    [] OTHER -> symbol

\* trades as the exchange's streams deliver them
TradeSamples ==
  { [symbol |-> "BTCUSDT", marketType |-> "SPOT", tradeId |-> 1, streamType |-> "aggTrade", price |-> 1],
    [symbol |-> "BTCUSDT", marketType |-> "SPOT", tradeId |-> 1, streamType |-> "trade", price |-> 2],
    [symbol |-> "BTCUSDT", marketType |-> "USDT-M", tradeId |-> 1, streamType |-> "aggTrade", price |-> 1],
    [symbol |-> "ETHUSDT", marketType |-> "SPOT", tradeId |-> 2, streamType |-> "aggTrade", price |-> 1],
    [symbol |-> "BTCUSDT", marketType |-> "SPOT", tradeId |-> 2, streamType |-> "trade", price |-> 1] }

AggTradeSamples ==
  { [symbol |-> "ETHUSDT", marketType |-> "SPOT", tradeId |-> 101, tradeTime |-> 10, price |-> 1, source |-> "rest"],
    [symbol |-> "ETHUSDT", marketType |-> "SPOT", tradeId |-> 102, tradeTime |-> 20, price |-> 2, source |-> "ws"],
    [symbol |-> "ETHUSDT", marketType |-> "SPOT", tradeId |-> 102, tradeTime |-> 20, price |-> 3, source |-> "rest"],
    [symbol |-> "BTCUSDT", marketType |-> "SPOT", tradeId |-> 50, tradeTime |-> 30, price |-> 1, source |-> "ws"] }

LiquidationSamples ==
  { [eventId |-> "USDT-M:liquidation-1", price |-> 25000],
    [eventId |-> "USDT-M:liquidation-1", price |-> 26000],
    [eventId |-> "USDT-M:liquidation-2", price |-> 25000] }

\* the stream filters a reader asks for
FilterSamples ==
  { {[symbol |-> "btcusdt", marketType |-> "SPOT", streamType |-> "aggTrade"]},
    {[symbol |-> "BTCUSDT", marketType |-> "SPOT", streamType |-> "trade"],
     [symbol |-> "ETHUSDT", marketType |-> "SPOT", streamType |-> "aggTrade"]},
    {} }

\* PRIMARY KEY (symbol, market_type, trade_id) of trade_data and of agg_trades
TradeKey(row) == <<row.symbol, row.marketType, row.tradeId>>

\* event_id TEXT PRIMARY KEY of liquidation_events
EventKey(row) == row.eventId

\* the rowid SQLite gives a new row of a table without an INTEGER PRIMARY KEY:
\* one more than the largest rowid in the table
NextRowid(table) ==
  IF table = {} THEN 1
  ELSE (CHOOSE r \in table : \A o \in table : o.rowid <= r.rowid).rowid + 1

\* INSERT OR REPLACE: the row with the key is deleted and the new one inserted
InsertOrReplace(table, row, Key(_)) ==
  {r \in table : Key(r) # Key(row)} \cup {row}

\* INSERT OR IGNORE: a row whose key is in the table changes nothing
InsertOrIgnore(table, row, Key(_)) ==
  IF \E r \in table : Key(r) = Key(row) THEN table ELSE table \cup {row}

\* INSERT OR IGNORE INTO trade_data: the row gets its rowid when it is inserted
InsertTrade(table, trade) ==
  InsertOrIgnore(table,
    [rowid |-> NextRowid(table), symbol |-> trade.symbol, marketType |-> trade.marketType,
     tradeId |-> trade.tradeId, streamType |-> trade.streamType, price |-> trade.price],
    TradeKey)

InsertAggTrade(table, trade) == InsertOrIgnore(table, trade, TradeKey)

\* a liquidation insert that overwrites: INSERT OR REPLACE INTO liquidation_events
InsertLiquidationReplacing(table, event) == InsertOrReplace(table, event, EventKey)

InsertLiquidation(table, event) == InsertOrIgnore(table, event, EventKey)

\* for (const trade of data) await this.runSql(db, sql, [...]) inside one transaction
RECURSIVE InsertTrades(_, _)
InsertTrades(table, data) ==
  IF data = <<>> THEN table
  ELSE InsertTrades(InsertTrade(table, Head(data)), Tail(data))

RECURSIVE InsertAggTrades(_, _)
InsertAggTrades(table, trades) ==
  IF trades = <<>> THEN table
  ELSE InsertAggTrades(InsertAggTrade(table, Head(trades)), Tail(trades))

RECURSIVE InsertLiquidations(_, _)
InsertLiquidations(table, events) ==
  IF events = <<>> THEN table
  ELSE InsertLiquidations(InsertLiquidation(table, Head(events)), Tail(events))

\* rows of a table as a sequence, ORDER BY rowid ASC
RECURSIVE ByRowid(_)
ByRowid(rows) ==
  IF rows = {} THEN <<>>
  ELSE LET first == CHOOSE r \in rows : \A o \in rows : r.rowid <= o.rowid
       IN <<first>> \o ByRowid(rows \ {first})

\* a reader that repeats the last row of the page before: WHERE rowid >= ?
GetTradeDataFromRowId(table, filters, lastRowId, limit) ==
  IF filters = {} THEN <<>>
  ELSE LET rows == ByRowid({r \in table :
                      /\ r.rowid >= lastRowId
                      /\ \E f \in filters : /\ r.symbol = ToUpperCase(f.symbol)
                                            /\ r.marketType = f.marketType
                                            /\ r.streamType = f.streamType})
       IN SubSeq(rows, 1, Min(Len(rows), Max(1, limit)))

\* getTradeDataSinceRowId(filters, lastRowId, limit)
GetTradeDataSinceRowId(table, filters, lastRowId, limit) ==
  IF filters = {} THEN <<>>
  ELSE LET rows == ByRowid({r \in table :
                      /\ r.rowid > lastRowId
                      /\ \E f \in filters : /\ r.symbol = ToUpperCase(f.symbol)
                                            /\ r.marketType = f.marketType
                                            /\ r.streamType = f.streamType})
       IN SubSeq(rows, 1, Min(Len(rows), Max(1, limit)))

\* a checkpoint query that orders the wrong way round: ORDER BY trade_id ASC
GetFirstAggTradeCheckpoint(table, symbol, marketType) ==
  LET rows == {r \in table : r.symbol = symbol /\ r.marketType = marketType}
  IN IF rows = {} THEN Undefined
     ELSE LET row == CHOOSE r \in rows : \A o \in rows : r.tradeId <= o.tradeId
          IN [tradeId |-> row.tradeId, tradeTime |-> row.tradeTime]

\* getLastAggTradeCheckpoint(symbol, marketType): ORDER BY trade_id DESC LIMIT 1
GetLastAggTradeCheckpoint(table, symbol, marketType) ==
  LET rows == {r \in table : r.symbol = symbol /\ r.marketType = marketType}
  IN IF rows = {} THEN Undefined
     ELSE LET row == CHOOSE r \in rows : \A o \in rows : o.tradeId <= r.tradeId
          IN [tradeId |-> row.tradeId, tradeTime |-> row.tradeTime]

\* sequences of 1..MaxBatch rows drawn from samples
Batches(samples) ==
  UNION {[1..n -> samples] : n \in 1..MaxBatch}

Inserted == Len(dbLog.trade) + Len(dbLog.agg) + Len(dbLog.liq)

\* saveTradeData(data)
SaveTradeData(data) ==
  /\ data # <<>>
  /\ Inserted + Len(data) <= MaxInserts
  /\ tradeData' = InsertTrades(tradeData, data)
  /\ dbLog' = [dbLog EXCEPT !.trade = @ \o data]
  /\ UNCHANGED <<aggTrades, liquidationEvents, pager, exceptDB>>

\* saveAggTrades(trades)
SaveAggTrades(trades) ==
  /\ trades # <<>>
  /\ Inserted + Len(trades) <= MaxInserts
  /\ aggTrades' = InsertAggTrades(aggTrades, trades)
  /\ dbLog' = [dbLog EXCEPT !.agg = @ \o trades]
  /\ UNCHANGED <<tradeData, liquidationEvents, pager, exceptDB>>

\* saveLiquidationEvents(events)
SaveLiquidationEvents(events) ==
  /\ events # <<>>
  /\ Inserted + Len(events) <= MaxInserts
  /\ liquidationEvents' = InsertLiquidations(liquidationEvents, events)
  /\ dbLog' = [dbLog EXCEPT !.liq = @ \o events]
  /\ UNCHANGED <<tradeData, aggTrades, pager, exceptDB>>

\* a reader calls getTradeDataSinceRowId(filters, cursor, limit) and moves its cursor
\* to the last rowId returned
ReadPage ==
  LET page == GetTradeDataSinceRowId(tradeData, pager.filters, pager.cursor, pager.limit)
  IN /\ pager' = IF page = <<>>
                 THEN [pager EXCEPT !.last = "end"]
                 ELSE [pager EXCEPT !.rows = @ \o page,
                                    !.cursor = page[Len(page)].rowid,
                                    !.last = "page"]
     /\ pager' # pager
     /\ UNCHANGED <<tradeData, aggTrades, liquidationEvents, dbLog, exceptDB>>

NextDB ==
  \/ \E data \in Batches(TradeSamples) : SaveTradeData(data)
  \/ \E trades \in Batches(AggTradeSamples) : SaveAggTrades(trades)
  \/ \E events \in Batches(LiquidationSamples) : SaveLiquidationEvents(events)
  \/ ReadPage

\* the tables after runMigrations on a new file, and a reader that has not read yet
InitDB ==
  /\ tradeData = {}
  /\ aggTrades = {}
  /\ liquidationEvents = {}
  /\ dbLog = [trade |-> <<>>, agg |-> <<>>, liq |-> <<>>]
  /\ \E filters \in FilterSamples, limit \in PageLimits :
       pager = [filters |-> filters, limit |-> limit, cursor |-> 0, rows |-> <<>>,
                last |-> "none"]

QuietDB ==
  /\ tradeData = {}
  /\ aggTrades = {}
  /\ liquidationEvents = {}
  /\ dbLog = [trade |-> <<>>, agg |-> <<>>, liq |-> <<>>]
  /\ pager = [filters |-> {}, limit |-> 1, cursor |-> 0, rows |-> <<>>, last |-> "none"]

---------------------------------------------------------------------------
\* Part V: CvdAggregationWorker over trade_data and processing_state
CwBatchSize == 2     \* options.batchSize
MaxFailures == 1     \* store or aggregator calls of the worker that throw
MaxCwTimers == 2     \* pending timeouts of the worker

\* BINANCE_CVD_GROUPS: two aggregators in declared order
AggregatorConfigs ==
  << [id |-> "btc",
      streams |-> {[symbol |-> "btcusdt", marketType |-> "SPOT", streamType |-> "default"],
                   [symbol |-> "BTCUSDT", marketType |-> "SPOT", streamType |-> "aggTrade"],
                   [symbol |-> "BTCUSDT", marketType |-> "SPOT", streamType |-> "trade"]}],
     [id |-> "mix",
      streams |-> {[symbol |-> "ETHUSDT", marketType |-> "SPOT", streamType |-> "aggTrade"],
                   [symbol |-> "BTCUSDT", marketType |-> "USDT-M", streamType |-> "aggTrade"]}] >>

AggregatorIds == {AggregatorConfigs[i].id : i \in 1..Len(AggregatorConfigs)}

\* normalizeStreams: upper-case symbol, streamType ?? 'aggTrade', one entry per key
NormalizeStreams(streams) ==
  {[symbol |-> ToUpperCase(stream.symbol), marketType |-> stream.marketType,
    streamType |-> IF stream.streamType = "default" THEN "aggTrade" ELSE stream.streamType] :
     stream \in streams}

\* this.streamMap.get(config.id)
StreamMap(i) == NormalizeStreams(AggregatorConfigs[i].streams)

\* the rowIds of a batch of rows
RowIds(trades) == [k \in 1..Len(trades) |-> trades[k].rowid]

\* a cursor that keeps the first row of the batch: trades[0].rowId
FirstRowId(batch) == batch[1]

\* lastRowId = trades[trades.length - 1].rowId
LastRowId(batch) == batch[Len(batch)]

\* scheduleNextIteration(): a new timeout when the worker is running
CwScheduled(c, isRunning) ==
  IF isRunning THEN [c EXCEPT !.timers = @ + 1] ELSE c

\* processAggregator(config) is over (it returned or threw): the for loop of
\* processAllAggregators goes on to the next config, or the pass ends with idle,
\* processing = false and the caller's scheduleNextIteration()
CwLeaveAggregator(c) ==
  IF c.idx + 1 > Len(AggregatorConfigs) \/ ~c.running
  THEN CwScheduled([c EXCEPT !.processing = FALSE, !.pc = "idle", !.idx = 0,
                             !.lastRowId = 0, !.batch = <<>>], c.running)
  ELSE [c EXCEPT !.idx = @ + 1, !.pc = "state", !.lastRowId = 0, !.batch = <<>>]

\* processAllAggregators() up to its first await
CwProcessAll(c) ==
  IF ~c.running \/ c.processing
  THEN CwScheduled(c, c.running)
  ELSE [c EXCEPT !.processing = TRUE, !.idx = 1, !.pc = "state"]

\* start() up to await this.ensureAggregators()
CwStart ==
  /\ ~cw.running
  /\ ~cw.starting
  /\ cw' = [cw EXCEPT !.running = TRUE, !.starting = TRUE]
  /\ UNCHANGED <<processingState, fed, cwDone, exceptCW>>

\* start() after ensureAggregators(): processAllAggregators(), scheduleNextIteration()
CwStartContinues ==
  /\ cw.starting
  /\ cw.timers < MaxCwTimers
  /\ cw' = CwProcessAll([cw EXCEPT !.starting = FALSE])
  /\ UNCHANGED <<processingState, fed, cwDone, exceptCW>>

\* stop(): clearTimeout(this.timer) removes the timeout set last, if it is pending
CwStop ==
  /\ cw.running
  /\ cw' = [cw EXCEPT !.running = FALSE, !.timers = Max(0, @ - 1)]
  /\ UNCHANGED <<processingState, fed, cwDone, exceptCW>>

\* the timeout callback of scheduleNextIteration()
CwTimerFires ==
  /\ cw.timers > 0
  /\ cw' = CwProcessAll([cw EXCEPT !.timers = @ - 1])
  /\ UNCHANGED <<processingState, fed, cwDone, exceptCW>>

\* getProcessingState('cvd_aggregator', config.id) returns; while (this.running && hasMore)
CwGetState ==
  /\ cw.pc = "state"
  /\ LET id == AggregatorConfigs[cw.idx].id
         c == [cw EXCEPT !.lastRowId = processingState[id]]
     IN cw' = IF c.running THEN [c EXCEPT !.pc = "fetch"] ELSE CwLeaveAggregator(c)
  /\ UNCHANGED <<processingState, fed, cwDone, exceptCW>>

\* getTradeDataSinceRowId(streams, lastRowId, batchSize) returns; a batch that is not
\* empty is handed to aggregator.enqueueTrades and flush() is awaited
CwFetch ==
  /\ cw.pc = "fetch"
  /\ LET id == AggregatorConfigs[cw.idx].id
         trades == GetTradeDataSinceRowId(tradeData, StreamMap(cw.idx), cw.lastRowId,
                                          CwBatchSize)
     IN IF Len(trades) = 0
        THEN /\ cw' = CwLeaveAggregator(cw)
             /\ UNCHANGED fed
        ELSE /\ cw' = [cw EXCEPT !.batch = RowIds(trades), !.pc = "flush"]
             /\ fed' = [fed EXCEPT ![id] = @ \o RowIds(trades)]
  /\ UNCHANGED <<processingState, cwDone, exceptCW>>

\* aggregator.flush() returns; saveProcessingState is awaited
CwFlushed ==
  /\ cw.pc = "flush"
  /\ cw' = [cw EXCEPT !.lastRowId = LastRowId(cw.batch), !.pc = "save"]
  /\ UNCHANGED <<processingState, fed, cwDone, exceptCW>>

\* saveProcessingState returns; emit batchProcessed; a full batch goes round the loop
CwSaved ==
  /\ cw.pc = "save"
  /\ LET id == AggregatorConfigs[cw.idx].id
     IN /\ processingState' = [processingState EXCEPT ![id] = cw.lastRowId]
        /\ cwDone' = [cwDone EXCEPT ![id] = @ \cup {cw.batch[k] : k \in 1..Len(cw.batch)}]
        /\ cw' = IF Len(cw.batch) < CwBatchSize \/ ~cw.running
                 THEN CwLeaveAggregator(cw)
                 ELSE [cw EXCEPT !.pc = "fetch", !.batch = <<>>]
  /\ UNCHANGED <<fed, exceptCW>>

\* one of the awaited calls of processAggregator throws: the error is logged and
\* emitted by processAllAggregators and the loop goes on
CwFails ==
  /\ cw.pc \in {"state", "fetch", "flush", "save"}
  /\ cw.failures < MaxFailures
  /\ cw' = CwLeaveAggregator([cw EXCEPT !.failures = @ + 1])
  /\ UNCHANGED <<processingState, fed, cwDone, exceptCW>>

NextCW ==
  \/ \E trade \in TradeSamples : SaveTradeData(<<trade>>)
  \/ CwStart
  \/ CwStartContinues
  \/ CwStop
  \/ CwTimerFires
  \/ CwGetState
  \/ CwFetch
  \/ CwFlushed
  \/ CwSaved
  \/ CwFails

\* the worker as constructed, over an empty processing_state
InitCW ==
  /\ processingState = [id \in AggregatorIds |-> 0]
  /\ cw = [running |-> FALSE, processing |-> FALSE, starting |-> FALSE, timers |-> 0,
           pc |-> "idle", idx |-> 0, lastRowId |-> 0, batch |-> <<>>, failures |-> 0]
  /\ fed = [id \in AggregatorIds |-> <<>>]
  /\ cwDone = [id \in AggregatorIds |-> {}]

---------------------------------------------------------------------------
\* Part VI: DatabaseManager.runMigrations
MaxRuns == 3         \* calls of runMigrations

\* MIGRATIONS: per id the tables its CREATE TABLE IF NOT EXISTS statements create;
\* cvd_data is created with the columns delta_value and delta_z_score
MIGRATIONS ==
  << [id |-> 1, tables |-> {"schema_migrations", "symbols", "ohlcv_1m", "top_trader_positions"}],
     [id |-> 2, tables |-> {"agg_trades"}],
     [id |-> 3, tables |-> {"trade_data", "cvd_data", "alert_history"}],
     [id |-> 4, tables |-> {"processing_state", "alert_queue"}],
     [id |-> 5, tables |-> {"liquidation_events"}] >>

CvdDeltaColumns == {"cvd_data.delta_value", "cvd_data.delta_z_score"}

\* CREATE TABLE IF NOT EXISTS: a table that exists is left as it is
CreateTables(objects, tables) ==
  objects \cup tables
    \cup (IF "cvd_data" \in tables /\ "cvd_data" \notin objects THEN CvdDeltaColumns ELSE {})

\* ensureCvdDeltaColumns: ALTER TABLE cvd_data ADD COLUMN for each column that is missing
EnsureCvdDeltaColumns(objects) == objects \cup CvdDeltaColumns

\* getAppliedMigrations: SELECT id FROM schema_migrations
GetAppliedMigrations(recorded) == {recorded[k] : k \in 1..Len(recorded)}

\* a run that takes no migration for applied
IsNeverApplied(applied, id) == id \in {}

\* if (appliedMigrations.has(migration.id)) continue
IsApplied(applied, id) == id \in applied

\* runMigrations(): BEGIN
MgBegin ==
  /\ mg.pc = "idle"
  /\ mg.runs < MaxRuns
  /\ mg' = [mg EXCEPT !.pc = "create", !.ran = <<>>, !.applied = {}, !.next = 1,
                      !.saved = [schema |-> schema, schemaMigrations |-> schemaMigrations]]
  /\ UNCHANGED <<schema, schemaMigrations, exceptMG>>

\* CREATE TABLE IF NOT EXISTS schema_migrations
MgCreateTable ==
  /\ mg.pc = "create"
  /\ schema' = CreateTables(schema, {"schema_migrations"})
  /\ mg' = [mg EXCEPT !.pc = "read"]
  /\ UNCHANGED <<schemaMigrations, exceptMG>>

\* const appliedMigrations = await this.getAppliedMigrations()
MgRead ==
  /\ mg.pc = "read"
  /\ mg' = [mg EXCEPT !.applied = GetAppliedMigrations(schemaMigrations), !.pc = "loop"]
  /\ UNCHANGED <<schema, schemaMigrations, exceptMG>>

\* one round of for (const migration of MIGRATIONS): skip an applied migration, else
\* run its statements and INSERT INTO schema_migrations, which throws on an id that
\* is in the table (PRIMARY KEY) and so ends the run in ROLLBACK
MgApply ==
  /\ mg.pc = "loop"
  /\ mg.next <= Len(MIGRATIONS)
  /\ LET migration == MIGRATIONS[mg.next]
     IN IF IsApplied(mg.applied, migration.id)
        THEN /\ mg' = [mg EXCEPT !.next = @ + 1]
             /\ UNCHANGED <<schema, schemaMigrations>>
        ELSE IF migration.id \in GetAppliedMigrations(schemaMigrations)
        THEN /\ schema' = mg.saved.schema
             /\ schemaMigrations' = mg.saved.schemaMigrations
             /\ mg' = [mg EXCEPT !.pc = "idle", !.runs = @ + 1,
                                 !.ran = Append(@, migration.id)]
        ELSE /\ schema' = CreateTables(schema, migration.tables)
             /\ schemaMigrations' = Append(schemaMigrations, migration.id)
             /\ mg' = [mg EXCEPT !.next = @ + 1, !.ran = Append(@, migration.id)]
  /\ UNCHANGED exceptMG

\* await this.ensureCvdDeltaColumns()
MgEnsure ==
  /\ mg.pc = "loop"
  /\ mg.next > Len(MIGRATIONS)
  /\ schema' = EnsureCvdDeltaColumns(schema)
  /\ mg' = [mg EXCEPT !.pc = "commit"]
  /\ UNCHANGED <<schemaMigrations, exceptMG>>

\* COMMIT
MgCommit ==
  /\ mg.pc = "commit"
  /\ mg' = [mg EXCEPT !.pc = "idle", !.runs = @ + 1, !.commits = @ + 1]
  /\ UNCHANGED <<schema, schemaMigrations, exceptMG>>

\* a statement of the run throws: ROLLBACK, and the error goes to the caller
MgFail ==
  /\ mg.pc \in {"create", "read", "loop", "commit"}
  /\ schema' = mg.saved.schema
  /\ schemaMigrations' = mg.saved.schemaMigrations
  /\ mg' = [mg EXCEPT !.pc = "idle", !.runs = @ + 1]
  /\ UNCHANGED exceptMG

NextMG ==
  \/ MgBegin
  \/ MgCreateTable
  \/ MgRead
  \/ MgApply
  \/ MgEnsure
  \/ MgCommit
  \/ MgFail

\* the tables of the first k migrations
RECURSIVE TablesUpTo(_)
TablesUpTo(k) == IF k = 0 THEN {} ELSE TablesUpTo(k - 1) \cup MIGRATIONS[k].tables

\* a new file, or a file migrated up to id k by an earlier version of the program,
\* whose cvd_data may lack the columns added later
InitMG ==
  /\ \E k \in 0..Len(MIGRATIONS), withColumns \in BOOLEAN :
       /\ withColumns => k >= 3
       /\ schema = TablesUpTo(k) \cup (IF withColumns THEN CvdDeltaColumns ELSE {})
       /\ schemaMigrations = [i \in 1..k |-> MIGRATIONS[i].id]
  /\ mg = [pc |-> "idle", ran |-> <<>>, applied |-> {}, next |-> 1, runs |-> 0,
           commits |-> 0, saved |-> [schema |-> schema, schemaMigrations |-> schemaMigrations]]

QuietMG ==
  /\ schema = {}
  /\ schemaMigrations = <<>>
  /\ mg = [pc |-> "idle", ran |-> <<>>, applied |-> {}, next |-> 1, runs |-> 0,
           commits |-> 0, saved |-> [schema |-> {}, schemaMigrations |-> <<>>]]

---------------------------------------------------------------------------
\* Part VII: SymbolManager over the symbols table

\* Bounds of the model
MaxDays == 2                       \* the clock stops at the end of this day
UpdateHours == {1, 18}             \* symbolUpdateHourUtc, sampled
\* Program constants
SIX_HOURS_MS == 21600000
MinUpdateDelayMs == 5000
HourMs == 3600000
DayMs == 86400000

\* Date.now() when the collector starts, sampled: midnight, two seconds before
\* 01:00, noon
SmStartTimes == {0, HourMs - 2000, 12 * HourMs}

\* ms between two handlers, unless a timer is due earlier
SmAdvanceSteps == {SIX_HOURS_MS}

\* a field of an exchangeInfo row that may hold an array
NotArray == [isArray |-> FALSE, items |-> {}]
Array(items) == [isArray |-> TRUE, items |-> items]

\* the three exchangeInfo answers of one update, sampled; market is the venue the
\* row came from
ExchangeInfoSamples ==
  { {},
    { [symbol |-> "BTCUSDT", market |-> "SPOT", status |-> "TRADING",
       permissions |-> Array({"SPOT", "MARGIN"}), permissionSets |-> NotArray,
       isSpotTradingAllowed |-> FALSE],
      [symbol |-> "BTCUSDT", market |-> "USDT-M", status |-> "TRADING",
       permissions |-> NotArray, permissionSets |-> NotArray, isSpotTradingAllowed |-> FALSE] },
    { [symbol |-> "BTCUSDT", market |-> "SPOT", status |-> "BREAK",
       permissions |-> Array({}), permissionSets |-> Array({{"SPOT"}, {"MARGIN"}}),
       isSpotTradingAllowed |-> FALSE],
      [symbol |-> "LTCUSDT", market |-> "SPOT", status |-> "TRADING",
       permissions |-> Array({"MARGIN"}), permissionSets |-> NotArray,
       isSpotTradingAllowed |-> TRUE] },
    { [symbol |-> "LTCUSDT", market |-> "SPOT", status |-> "TRADING",
       permissions |-> NotArray, permissionSets |-> NotArray, isSpotTradingAllowed |-> TRUE],
      [symbol |-> "BTCUSDT", market |-> "SPOT", status |-> "TRADING",
       permissions |-> Array({"MARGIN"}), permissionSets |-> NotArray,
       isSpotTradingAllowed |-> FALSE],
      [symbol |-> "BTCUSDT", market |-> "USDT-M", status |-> "SETTLING",
       permissions |-> NotArray, permissionSets |-> NotArray, isSpotTradingAllowed |-> FALSE] } }

\* the symbols table when the collector starts, sampled
StoredSymbolSamples ==
  { {},
    { [symbol |-> "LTCUSDT", marketType |-> "SPOT", status |-> "ACTIVE"] },
    { [symbol |-> "LTCUSDT", marketType |-> "SPOT", status |-> "ACTIVE"],
      [symbol |-> "BTCUSDT", marketType |-> "USDT-M", status |-> "INACTIVE"],
      [symbol |-> "BTCUSDT", marketType |-> "SPOT", status |-> "INACTIVE"] } }

\* `${s.symbol}|${s.marketType}`, and the primary key of symbols
SymbolKey(s) == <<s.symbol, s.marketType>>

\* isSpotEligible
IsSpotEligible(symbol) ==
  IF symbol.permissions.isArray /\ "SPOT" \in symbol.permissions.items THEN TRUE
  ELSE IF symbol.permissionSets.isArray
       THEN \E set \in symbol.permissionSets.items : "SPOT" \in set
       ELSE symbol.isSpotTradingAllowed

\* a status mapping that stores every symbol as ACTIVE
MapStatusActive(status) == "ACTIVE"

\* mapSymbol: status
MapStatus(status) == IF status = "TRADING" THEN "ACTIVE" ELSE "INACTIVE"

\* mapSymbol, with the fields the symbols table is keyed and filtered by
MapSymbol(symbol) ==
  [symbol |-> symbol.symbol, marketType |-> symbol.market,
   status |-> MapStatus(symbol.status)]

\* fetchSpotSymbols, fetchUsdMSymbols, fetchCoinMSymbols, merged
FetchSymbols(info) ==
  {MapSymbol(symbol) : symbol \in {e \in info : e.market = "SPOT" => IsSpotEligible(e)}}

\* upsertSymbols: INSERT ... ON CONFLICT(symbol, market_type) DO UPDATE
UpsertSymbols(table, merged) ==
  {r \in table : ~ \E s \in merged : SymbolKey(s) = SymbolKey(r)} \cup merged

\* deactivateRemovedSymbols: toDeactivate
ToDeactivate(known, latestSymbols) ==
  {SymbolKey(r) : r \in {k \in known : /\ k.status = "ACTIVE"
                                       /\ ~ \E s \in latestSymbols :
                                              SymbolKey(s) = SymbolKey(k)}}

\* markSymbolsInactive: UPDATE symbols SET status = 'INACTIVE' WHERE symbol, market_type
MarkSymbolsInactive(table, entries) ==
  {IF SymbolKey(r) \in entries THEN [r EXCEPT !.status = "INACTIVE"] ELSE r : r \in table}

\* clearTimeout(this.timer): a timeout that has fired is not pending any more
ClearTimer(s) == [s EXCEPT !.timers = {t \in @ : t.id # s.timer}]

\* this.timer = setTimeout(callback, delay)
SetTimer(s, kind, delay) ==
  [s EXCEPT !.timers = @ \cup {[id |-> s.nextId, due |-> s.now + delay, kind |-> kind]},
            !.timer = s.nextId,
            !.nextId = @ + 1]

\* the delay scheduleDailyUpdate computes at s.now
DailyDelay(s) ==
  LET today == (s.now \div DayMs) * DayMs + s.hour * HourMs
      nextRun == IF today <= s.now THEN today + DayMs ELSE today
  IN Max(nextRun - s.now, MinUpdateDelayMs)

\* scheduleDailyUpdate()
ScheduleDailyUpdate(s) == SetTimer(ClearTimer(s), "update", DailyDelay(s))

SmInFlight == sm.pc \in {"fetch", "upsert", "deactivate"}

\* BinanceDataCollector.start: await this.symbolManager.updateSymbols()
SmStart ==
  /\ sm.pc = "new"
  /\ sm' = [sm EXCEPT !.pc = "fetch", !.origin = "start"]
  /\ UNCHANGED <<symbols, exceptSM>>

\* the timeout set by scheduleDailyUpdate fires: this.updateSymbols() is called
SmUpdateTimerFires ==
  /\ sm.pc = "idle"
  /\ \E t \in sm.timers :
       /\ t.kind = "update"
       /\ t.due <= sm.now
       /\ sm' = [sm EXCEPT !.timers = @ \ {t}, !.pc = "fetch", !.origin = "timer",
                           !.firedAt = sm.now]
  /\ UNCHANGED <<symbols, exceptSM>>

\* updateSymbols: the three exchangeInfo requests are answered
SmFetch ==
  /\ sm.pc = "fetch"
  /\ \E info \in ExchangeInfoSamples :
       sm' = [sm EXCEPT !.pc = "upsert", !.info = info, !.merged = FetchSymbols(info)]
  /\ UNCHANGED <<symbols, exceptSM>>

\* updateSymbols: await this.db.upsertSymbols(merged)
SmUpsert ==
  /\ sm.pc = "upsert"
  /\ symbols' = UpsertSymbols(symbols, sm.merged)
  /\ sm' = [sm EXCEPT !.pc = "deactivate"]
  /\ UNCHANGED exceptSM

\* updateSymbols: await this.deactivateRemovedSymbols(merged); emit('updated')
SmDeactivate ==
  /\ sm.pc = "deactivate"
  /\ symbols' = MarkSymbolsInactive(symbols, ToDeactivate(symbols, sm.merged))
  /\ sm' = [sm EXCEPT !.pc = "updated", !.outcome = "updated", !.settledAt = sm.now,
                      !.updates = @ + 1]
  /\ UNCHANGED exceptSM

\* a request or a store call of updateSymbols rejects; a store call that rejects
\* has rolled its transaction back
SmFails ==
  /\ SmInFlight
  /\ sm' = [sm EXCEPT !.pc = "failed", !.outcome = "failed", !.settledAt = sm.now]
  /\ UNCHANGED <<symbols, exceptSM>>

\* BinanceDataCollector.start after the first update: scheduleDailyUpdate()
SmStartContinues ==
  /\ sm.pc = "updated"
  /\ sm.origin = "start"
  /\ sm' = [ScheduleDailyUpdate(sm) EXCEPT !.pc = "idle"]
  /\ UNCHANGED <<symbols, exceptSM>>

\* BinanceDataCollector.start when the first update rejects: start() rejects
SmStartFails ==
  /\ sm.pc = "failed"
  /\ sm.origin = "start"
  /\ sm' = [sm EXCEPT !.pc = "stopped"]
  /\ UNCHANGED <<symbols, exceptSM>>

\* .catch of the timer callback: this.timer = setTimeout(scheduleDailyUpdate, SIX_HOURS_MS).
\* The .finally reaction runs next and clears this timeout, so its callback never runs.
SmCatch ==
  /\ sm.pc = "failed"
  /\ sm.origin = "timer"
  /\ sm' = [SetTimer(sm, "retry", SIX_HOURS_MS) EXCEPT !.pc = "finally"]
  /\ UNCHANGED <<symbols, exceptSM>>

\* .finally of the timer callback: this.scheduleDailyUpdate()
SmFinally ==
  /\ \/ sm.pc = "finally"
     \/ sm.pc = "updated" /\ sm.origin = "timer"
  /\ sm' = [ScheduleDailyUpdate(sm) EXCEPT !.pc = "idle"]
  /\ UNCHANGED <<symbols, exceptSM>>

\* time passes between two handlers; a timeout fires when it is due, and promise
\* reactions run before the clock is read again
SmAdvance ==
  /\ sm.pc \in {"idle", "fetch", "upsert", "deactivate"}
  /\ \A t \in sm.timers : sm.now < t.due
  /\ \E d \in SmAdvanceSteps \cup {t.due - sm.now : t \in sm.timers} :
       /\ sm.now + d <= MaxDays * DayMs
       /\ \A t \in sm.timers : sm.now + d <= t.due
       /\ sm' = [sm EXCEPT !.now = @ + d]
  /\ UNCHANGED <<symbols, exceptSM>>

NextSM ==
  \/ SmStart
  \/ SmUpdateTimerFires
  \/ SmFetch
  \/ SmUpsert
  \/ SmDeactivate
  \/ SmFails
  \/ SmStartContinues
  \/ SmStartFails
  \/ SmCatch
  \/ SmFinally
  \/ SmAdvance

SmRecord(start, hour) ==
  [now |-> start, hour |-> hour, timer |-> 0, timers |-> {}, nextId |-> 1, pc |-> "new",
   origin |-> "none", info |-> {}, merged |-> {}, outcome |-> "none", settledAt |-> 0,
   firedAt |-> 0, updates |-> 0]

\* the manager as constructed, over the symbols table of an earlier run
InitSM ==
  /\ symbols \in StoredSymbolSamples
  /\ \E t \in SmStartTimes, hour \in UpdateHours : sm = SmRecord(t, hour)

QuietSM ==
  /\ symbols = {}
  /\ sm = SmRecord(0, 1)

---------------------------------------------------------------------------
\* Part VIII: TradeDataCollector over trade_data

\* Bounds of the model
MaxArrivals == 4          \* 'trade' events of the socket
MaxBufferSize == 2        \* options.maxBufferSize
MaxSaveFailures == 2      \* saveTradeData calls that reject

\* the n-th trade the socket delivers
ArrivedTrade(n) ==
  [symbol |-> "BTCUSDT", marketType |-> "USDT-M", tradeId |-> n,
   streamType |-> "aggTrade", price |-> 1]

\* a catch block that forgets the batch
DropBatch(buffer, batch) == buffer

\* this.tradeBuffer.unshift(...trades)
Unshift(buffer, batch) == batch \o buffer

\* flushTradeBuffer up to its await: the buffer is taken and saveTradeData(trades)
\* joins the transaction chain
FlushTradeBuffer(c) ==
  IF c.tradeBuffer = <<>> THEN c
  ELSE [c EXCEPT !.tradeBuffer = <<>>, !.flights = Append(@, c.tradeBuffer)]

\* the oldest flush in flight settles: stopCollection resolves with it when it is
\* the flush stopCollection awaits, which is the last one begun
StopSettles(c) == c.stopResolved \/ (c.stopped /\ Len(c.flights) = 1)

\* start(): the socket is connected and the flush timer set
TcStart ==
  /\ ~ tc.running
  /\ ~ tc.stopped
  /\ tc' = [tc EXCEPT !.running = TRUE, !.flushTimer = TRUE]
  /\ UNCHANGED <<dbVars, exceptTC>>

\* handleTrade(trade)
TcHandleTrade ==
  /\ tc.running
  /\ tc.arrived < MaxArrivals
  /\ LET pushed == [tc EXCEPT !.arrived = @ + 1,
                              !.tradeBuffer = Append(@, ArrivedTrade(tc.arrived + 1))]
     IN tc' = IF Len(pushed.tradeBuffer) >= MaxBufferSize
              THEN FlushTradeBuffer(pushed)
              ELSE pushed
  /\ UNCHANGED <<dbVars, exceptTC>>

\* the interval set by startFlushTimer fires
TcFlushTimerFires ==
  /\ tc.flushTimer
  /\ tc.tradeBuffer # <<>>
  /\ tc' = FlushTradeBuffer(tc)
  /\ UNCHANGED <<dbVars, exceptTC>>

\* stopCollection(): the timer is cleared, the socket closed, the buffer flushed;
\* with an empty buffer flushTradeBuffer returns at once and the call resolves
TcStopCollection ==
  /\ tc.running
  /\ tc' = FlushTradeBuffer([tc EXCEPT !.running = FALSE, !.flushTimer = FALSE,
                                       !.stopped = TRUE,
                                       !.stopResolved = (tc.tradeBuffer = <<>>)])
  /\ UNCHANGED <<dbVars, exceptTC>>

\* the transaction of the oldest saveTradeData in flight commits: tradeDataSaved
TcSaved ==
  /\ tc.flights # <<>>
  /\ tradeData' = InsertTrades(tradeData, Head(tc.flights))
  /\ dbLog' = [dbLog EXCEPT !.trade = @ \o Head(tc.flights)]
  /\ tc' = [tc EXCEPT !.flights = Tail(@), !.saved = @ + Len(Head(tc.flights)),
                      !.stopResolved = StopSettles(tc)]
  /\ UNCHANGED <<aggTrades, liquidationEvents, pager, exceptTC>>

\* the transaction of the oldest saveTradeData in flight is rolled back: error
TcSaveFails ==
  /\ tc.flights # <<>>
  /\ tc.errors < MaxSaveFailures
  /\ tc' = [tc EXCEPT !.flights = Tail(@), !.errors = @ + 1,
                      !.tradeBuffer = Unshift(@, Head(tc.flights)),
                      !.stopResolved = StopSettles(tc)]
  /\ UNCHANGED <<dbVars, exceptTC>>

NextTC ==
  \/ TcStart
  \/ TcHandleTrade
  \/ TcFlushTimerFires
  \/ TcStopCollection
  \/ TcSaved
  \/ TcSaveFails

\* the collector as constructed
InitTC ==
  tc = [running |-> FALSE, stopped |-> FALSE, flushTimer |-> FALSE, tradeBuffer |-> <<>>,
        flights |-> <<>>, arrived |-> 0, saved |-> 0, errors |-> 0,
        stopResolved |-> FALSE]

---------------------------------------------------------------------------
\* Part IX: one venue connection of BinanceTradeWebSocketClient

\* Bounds of the model
MaxSockets == 4                  \* new WebSocket(url) calls on the connection

\* close codes the socket reports, sampled: normal and abnormal closure
CloseCodes == {1000, 1006}
NormalClosure == 1000
AbnormalClosure == 1006

\* the connection with its heartbeat stopped and the reconnect timeout left alone
ClearHeartbeatOnly(c) ==
  [c EXCEPT !.heartbeatPending = IF c.heartbeatTimer THEN @ - 1 ELSE @,
            !.heartbeatTimer = FALSE]

\* clearHeartbeat(connection)
ClearHeartbeat(c) ==
  [c EXCEPT !.heartbeatPending = IF c.heartbeatTimer THEN @ - 1 ELSE @,
            !.heartbeatTimer = FALSE]

\* clearTimers(connection)
ClearTimers(c) ==
  ClearHeartbeat([c EXCEPT !.reconnectPending = IF c.reconnectTimer THEN @ - 1 ELSE @,
                           !.reconnectTimer = FALSE])

\* scheduleReconnect(connection)
ScheduleReconnect(c) ==
  IF c.reconnectTimer THEN c
  ELSE [c EXCEPT !.reconnectPending = @ + 1, !.reconnectTimer = TRUE,
                 !.scheduled = @ + 1]

\* startHeartbeat(connection)
StartHeartbeat(c) ==
  IF c.ws = 0 THEN ClearHeartbeat(c)
  ELSE [ClearHeartbeat(c) EXCEPT !.heartbeatPending = @ + 1, !.heartbeatTimer = TRUE]

\* connectMarket: the socket is created and the listeners are attached
NewSocket(origin) ==
  [state |-> "connecting", listeners |-> TRUE, origin |-> origin, settled |-> "pending"]

\* onOpen
OnOpen(c) == StartHeartbeat([c EXCEPT !.ready = TRUE])

\* onClose(code)
OnClose(c, code) ==
  LET cleared == [ClearTimers(c) EXCEPT !.ready = FALSE]
  IN IF code # NormalClosure THEN ScheduleReconnect(cleared) ELSE cleared

\* onError rejects the promise of connectMarket when the connection is not ready
Rejects(c, sock) == ~ c.ready /\ sock.settled = "pending"

\* .catch of the reconnect callback: scheduleReconnect(connection)
OnReconnectRejected(c, sock, rejected) ==
  IF rejected /\ sock.origin = "reconnect"
  THEN [ScheduleReconnect(c) EXCEPT !.failedReconnects = @ + 1]
  ELSE c

\* connect(): connectMarket(connection)
WsConnect ==
  /\ ~ wc.connectCalled
  /\ socks' = Append(socks, NewSocket("connect"))
  /\ wc' = [wc EXCEPT !.connectCalled = TRUE, !.ws = Len(socks) + 1, !.ready = FALSE,
                      !.attempts = @ + 1]
  /\ UNCHANGED exceptWC

\* the handshake of a socket completes: 'open'
WsOpen(s) ==
  /\ socks[s].state = "connecting"
  /\ socks' = [socks EXCEPT ![s].state = "open",
                            ![s].settled = IF socks[s].listeners /\ @ = "pending"
                                           THEN "resolved" ELSE @]
  /\ wc' = IF socks[s].listeners THEN OnOpen(wc) ELSE wc
  /\ UNCHANGED exceptWC

\* an open socket emits 'error'; its 'close' follows in a later turn of the event
\* loop
WsError(s) ==
  /\ socks[s].state = "open"
  /\ LET rejected == socks[s].listeners /\ Rejects(wc, socks[s])
     IN /\ socks' = [socks EXCEPT ![s].state = "errored",
                                  ![s].settled = IF rejected THEN "rejected" ELSE @]
        /\ wc' = OnReconnectRejected(wc, socks[s], rejected)
  /\ UNCHANGED exceptWC

\* the handshake of a socket fails: the ws library emits 'error' and 'close' (code
\* 1006) one after the other in one turn, and the rejection of connectMarket is
\* handled after both
WsHandshakeFails(s) ==
  /\ socks[s].state = "connecting"
  /\ LET rejected == socks[s].listeners /\ Rejects(wc, socks[s])
     IN /\ socks' = [socks EXCEPT ![s].state = "closed",
                                  ![s].settled = IF rejected THEN "rejected" ELSE @]
        /\ wc' = IF socks[s].listeners
                 THEN OnReconnectRejected(OnClose(wc, AbnormalClosure), socks[s], rejected)
                 ELSE wc
  /\ UNCHANGED exceptWC

\* a socket emits 'close'
WsClose(s, code) ==
  /\ socks[s].state \in {"open", "errored"}
  /\ socks' = [socks EXCEPT ![s].state = "closed"]
  /\ wc' = IF socks[s].listeners
           THEN [OnClose(wc, code) EXCEPT !.abnormalCloses =
                                            IF code # NormalClosure THEN @ + 1 ELSE @]
           ELSE wc
  /\ UNCHANGED exceptWC

\* the timeout of scheduleReconnect fires: connectMarket(connection)
WsReconnectTimerFires ==
  /\ wc.reconnectPending > 0
  /\ Len(socks) < MaxSockets
  /\ socks' = Append(socks, NewSocket("reconnect"))
  /\ wc' = [wc EXCEPT !.reconnectPending = @ - 1, !.reconnectTimer = FALSE,
                      !.ws = Len(socks) + 1, !.ready = FALSE, !.attempts = @ + 1]
  /\ UNCHANGED exceptWC

\* what the connection is doing, as the owner of the client sees it
WsPhase ==
  IF wc.reconnectPending > 0 THEN "waiting"
  ELSE IF wc.ready THEN "ready"
  ELSE IF wc.ws # 0 /\ socks[wc.ws].state = "connecting" THEN "connecting"
  ELSE "closed"

\* disconnect()
WsDisconnect ==
  /\ wc.connectCalled
  /\ ~ wc.disconnected
  /\ socks' = IF wc.ws # 0
              THEN [socks EXCEPT ![wc.ws].listeners = FALSE,
                                 ![wc.ws].state = IF @ = "connecting" THEN "aborted"
                                                  ELSE "closed"]
              ELSE socks
  /\ wc' = [ClearTimers(wc) EXCEPT !.ws = 0, !.ready = FALSE, !.disconnected = TRUE,
                                   !.phaseAtDisconnect = WsPhase]
  /\ UNCHANGED exceptWC

NextWC ==
  \/ WsConnect
  \/ \E s \in 1..Len(socks) : WsOpen(s)
  \/ \E s \in 1..Len(socks) : WsError(s)
  \/ \E s \in 1..Len(socks) : WsHandshakeFails(s)
  \/ \E s \in 1..Len(socks), code \in CloseCodes : WsClose(s, code)
  \/ WsReconnectTimerFires
  \/ WsDisconnect

\* the connection as groupSubscriptions builds it
InitWC ==
  /\ socks = <<>>
  /\ wc = [ws |-> 0, ready |-> FALSE, reconnectTimer |-> FALSE, reconnectPending |-> 0,
           heartbeatTimer |-> FALSE, heartbeatPending |-> 0, connectCalled |-> FALSE,
           disconnected |-> FALSE, phaseAtDisconnect |-> "none", attempts |-> 0,
           scheduled |-> 0, failedReconnects |-> 0, abnormalCloses |-> 0]

---------------------------------------------------------------------------
\* Part X: alert gating of CvdAggregationWorker over alert_queue and alert_history
\*
\* Numbers of the z-score domain are fixed-point, in thousandths; Math.log and
\* Math.exp are tabulated for the sampled arguments, rounded to thousandths.

\* Bounds of the model
MaxTriggers == 2             \* alert decisions of the aggregators
MaxAlTicks == 1              \* clock steps

\* Program constants
SuppressionWindowMs == 1800000
MinLogThreshold == 100       \* 0.1
One == 1000                  \* 1.0

\* ms between two handlers, and by how much the trades being aggregated may lag
\* behind the clock
AlTickMs == {1800000}
AlLagMs == {0, 3600000}
AlStartMs == 2 * HourMs

CvdAlertType == "CVD_ZSCORE"
AlertTypes == {CvdAlertType, "OTHER"}
AlertAggregators == {"btc", "mix"}

Finite(n) == [kind |-> "finite", milli |-> n]
NaN == [kind |-> "NaN", milli |-> 0]
PosInfinity == [kind |-> "Infinity", milli |-> 0]

\* payload.triggerZScore, sampled
ZScoreSamples ==
  {Finite(500), Finite(1080), Finite(7000), Finite(8000), Finite(0 - 10000), NaN,
   PosInfinity}

\* the threshold the worker is constructed with, sampled: 0.05 and 2.0
ThresholdSamples == {50, 2000}

\* Math.log on the sampled magnitudes
MathLog(x) ==
  CASE x = 1000 -> 0
    [] x = 1080 -> 77
    [] x = 7000 -> 1946
    [] x = 8000 -> 2079
    [] x = 10000 -> 2303

\* Math.exp on the thresholds in use
MathExp(x) ==
  CASE x = 50 -> 1051
    [] x = 100 -> 1105
    [] x = 2000 -> 7389

Abs(x) == IF x < 0 THEN 0 - x ELSE x

\* a threshold that is used as configured
LogZScoreThresholdAsGiven(threshold) == threshold

\* toSignedLog
ToSignedLog(value) ==
  IF value.kind # "finite" THEN 0
  ELSE LET magnitude == Abs(value.milli)
       IN IF magnitude < One THEN 0
          ELSE IF value.milli >= 0 THEN MathLog(magnitude) ELSE 0 - MathLog(magnitude)

\* this.logZScoreThreshold = Math.max(threshold, 0.1)
LogZScoreThreshold(threshold) == Max(threshold, MinLogThreshold)

\* this.rawZScoreThreshold = Math.exp(this.logZScoreThreshold)
RawZScoreThreshold(threshold) == MathExp(LogZScoreThreshold(threshold))

\* buildAlertPayload: no payload, or the one enriched payload
BuildAlertPayload(payload, threshold) ==
  LET logTriggerZScore == ToSignedLog(payload.triggerZScore)
  IN IF Abs(logTriggerZScore) < LogZScoreThreshold(threshold) THEN <<>>
     ELSE << [symbol |-> payload.symbol, timestamp |-> payload.timestamp,
              triggerZScore |-> payload.triggerZScore,
              threshold |-> LogZScoreThreshold(threshold),
              rawThreshold |-> RawZScoreThreshold(threshold),
              logThreshold |-> LogZScoreThreshold(threshold),
              rawTriggerZScore |-> payload.triggerZScore,
              logTriggerZScore |-> logTriggerZScore] >>

\* this.alertsEnabled && config.alertsEnabled !== false
AlertsForAggregator(c, id) == c.alertsEnabled /\ c.configAlertsEnabled[id] # "false"

\* CvdAggregationWorker.enqueueAlert: what is handed to databaseManager.enqueueAlert
WorkerEnqueueAlert(c, id, payload) ==
  IF ~ c.alertsEnabled \/ c.configAlertsEnabled[id] = "false" THEN <<>>
  ELSE BuildAlertPayload(payload, c.threshold)

\* the column alias of the two SELECTs of hasRecentAlertOrPending
ExistsAlias == "exists"

\* words SQLite reads as keywords wherever they stand, so that a statement with one
\* of them as a column alias is not prepared
SqliteReservedWords == {"exists", "select", "from", "where", "and", "or", "not", "null"}

\* sqlite3_prepare of a statement whose column alias is the given word
Prepares(alias) == alias \notin SqliteReservedWords

\* the first SELECT of hasRecentAlertOrPending, over alert_queue
PendingQuery(queue, alertType, symbol, sinceTimestamp) ==
  \E r \in queue :
    /\ r.alertType = alertType
    /\ r.symbol = symbol
    /\ (~ r.processed \/ r.timestamp >= sinceTimestamp)

\* the second SELECT of hasRecentAlertOrPending, over alert_history
HistoryQuery(history, alertType, symbol, sinceTimestamp) ==
  \E r \in history :
    /\ r.alertType = alertType
    /\ r.symbol = symbol
    /\ r.timestamp >= sinceTimestamp

\* hasRecentAlertOrPending: "true", "false", or "rejected" when get() rejects
HasRecentAlertOrPending(queue, history, alertType, symbol, sinceTimestamp) ==
  IF ~ Prepares(ExistsAlias) THEN "rejected"
  ELSE IF PendingQuery(queue, alertType, symbol, sinceTimestamp) THEN "true"
  ELSE IF HistoryQuery(history, alertType, symbol, sinceTimestamp) THEN "true"
  ELSE "false"

\* shouldSuppress(payload) of the suppression handler
ShouldSuppress(c, queue, history, payload) ==
  HasRecentAlertOrPending(queue, history, CvdAlertType, payload.symbol,
                          c.now - SuppressionWindowMs)

\* DatabaseManager.enqueueAlert: INSERT INTO alert_queue
InsertAlert(queue, alertType, payload) ==
  queue \cup {[id |-> Cardinality(queue) + 1, alertType |-> alertType,
               symbol |-> payload.symbol, timestamp |-> payload.timestamp,
               processed |-> FALSE]}

NoCheck ==
  [called |-> FALSE, alertType |-> "", symbol |-> "", sinceTimestamp |-> 0,
   outcome |-> "none"]

NoTrigger ==
  [fired |-> FALSE, payload |-> [symbol |-> "", timestamp |-> 0, triggerZScore |-> NaN],
   veto |-> "none", sends |-> FALSE, handed |-> <<>>, stored |-> TRUE]

\* a caller asks hasRecentAlertOrPending(alertType, symbol, sinceTimestamp)
AlCheck(alertType, symbol, sinceTimestamp) ==
  /\ al' = [al EXCEPT !.last = NoTrigger, !.check =
              [called |-> TRUE, alertType |-> alertType, symbol |-> symbol,
               sinceTimestamp |-> sinceTimestamp,
               outcome |-> HasRecentAlertOrPending(alertRows, alertHistory, alertType,
                                                   symbol, sinceTimestamp)]]
  /\ al'.check # al.check
  /\ UNCHANGED <<alertRows, alertHistory, exceptAL>>

\* an aggregator finds its threshold crossed at a trade of the given lag: it asks
\* the suppression handler, when it was given one, and unless that vetoes it calls
\* sendAlert; a handler that rejects either stops the alert or is passed over (go);
\* the INSERT of the store succeeds or fails (stored), and a failure is caught,
\* logged and emitted as 'error'
AlTrigger(id, z, lag, go, stored) ==
  /\ al.triggers < MaxTriggers
  /\ LET payload == [symbol |-> id, timestamp |-> al.now - lag, triggerZScore |-> z]
         asked == AlertsForAggregator(al, id)
         veto == IF asked THEN ShouldSuppress(al, alertRows, alertHistory, payload)
                 ELSE "none"
         sends == veto \in {"none", "false"} \/ (veto = "rejected" /\ go)
         handed == IF sends THEN WorkerEnqueueAlert(al, id, payload) ELSE <<>>
     IN /\ (veto # "rejected" => go)
        /\ (handed = <<>> => stored)
        /\ alertRows' = IF handed = <<>> \/ ~ stored THEN alertRows
                        ELSE InsertAlert(alertRows, CvdAlertType, handed[1])
        /\ al' = [al EXCEPT !.triggers = @ + 1, !.check = NoCheck,
                            !.last = [fired |-> TRUE, payload |-> payload, veto |-> veto,
                                      sends |-> sends, handed |-> handed,
                                      stored |-> stored]]
  /\ UNCHANGED <<alertHistory, exceptAL>>

\* the queue processor closes a pending row: the alert was sent and recorded in
\* alert_history, or its attempts were exhausted
AlDispatch(r, sent) ==
  /\ r \in alertRows
  /\ ~ r.processed
  /\ alertRows' = (alertRows \ {r}) \cup {[r EXCEPT !.processed = TRUE]}
  /\ alertHistory' = IF sent
                     THEN alertHistory \cup {[alertType |-> r.alertType,
                                              symbol |-> r.symbol,
                                              timestamp |-> r.timestamp]}
                     ELSE alertHistory
  /\ al' = [al EXCEPT !.check = NoCheck, !.last = NoTrigger]
  /\ UNCHANGED exceptAL

\* Date.now() advances
AlAdvance ==
  /\ al.ticks < MaxAlTicks
  /\ \E d \in AlTickMs : al' = [al EXCEPT !.now = @ + d, !.ticks = @ + 1]
  /\ UNCHANGED <<alertRows, alertHistory, exceptAL>>

NextAL ==
  \/ \E alertType \in AlertTypes, symbol \in AlertAggregators,
        back \in {0, SuppressionWindowMs} :
       AlCheck(alertType, symbol, al.now - back)
  \/ \E id \in AlertAggregators, z \in ZScoreSamples, lag \in AlLagMs,
        go \in BOOLEAN, stored \in BOOLEAN :
       AlTrigger(id, z, lag, go, stored)
  \/ \E r \in alertRows, sent \in BOOLEAN : AlDispatch(r, sent)
  \/ AlAdvance

AlRecord(threshold, alertsEnabled, flag) ==
  [now |-> AlStartMs, ticks |-> 0, threshold |-> threshold,
   alertsEnabled |-> alertsEnabled,
   configAlertsEnabled |-> [id \in AlertAggregators |->
                              IF id = "btc" THEN flag ELSE "undefined"],
   triggers |-> 0, check |-> NoCheck, last |-> NoTrigger]

\* rows left in alert_queue and alert_history by an earlier run, sampled
StoredAlertRows ==
  { {},
    { [id |-> 1, alertType |-> CvdAlertType, symbol |-> "btc", timestamp |-> AlStartMs,
       processed |-> FALSE] },
    { [id |-> 1, alertType |-> CvdAlertType, symbol |-> "btc", timestamp |-> 0,
       processed |-> TRUE] } }

StoredAlertHistory ==
  { {}, { [alertType |-> CvdAlertType, symbol |-> "mix", timestamp |-> AlStartMs] } }

\* the worker as constructed, over the tables of an earlier run
InitAL ==
  /\ alertRows \in StoredAlertRows
  /\ alertHistory \in StoredAlertHistory
  /\ \E threshold \in ThresholdSamples, alertsEnabled \in BOOLEAN,
        flag \in {"false", "undefined"} :
       al = AlRecord(threshold, alertsEnabled, flag)

QuietAL ==
  /\ alertRows = {}
  /\ alertHistory = {}
  /\ al = AlRecord(2000, TRUE, "undefined")

---------------------------------------------------------------------------
\* Part XI: DatabaseBackupScheduler

\* Bounds of the model
MaxBsFires == 3              \* timeouts that fire
MaxBsTicks == 3              \* clock steps
MaxBsStarts == 2             \* calls of start() that set a timeout

\* Program constants
BackupIntervalMs == 86400000
SecondMs == 1000
DaysPerWeek == 7
ThursdayOffset == 4          \* the day of the week of 1970-01-01, and of an ISO week's Thursday

\* Date.now() when the scheduler is constructed, and the clock's step
BsStartMs == 16 * DayMs
BsTickMs == {BackupIntervalMs \div 2}

DEFAULT_RETENTION == [dailyDays |-> 7, weeklyWeeks |-> 1]
RetentionSamples == {DEFAULT_RETENTION, [dailyDays |-> 1, weeklyWeeks |-> 2]}

\* a file name of the backup directory: the instant its digits denote and the
\* format they are written in ("basic": binance_data_YYYYMMDDTHHMMSSZ.sqlite,
\* "dateonly": binance_data_YYYYMMDD.sqlite)
BackupName(ms) == [ms |-> ms, format |-> "basic"]
DateOnlyName(ms) == [ms |-> ms, format |-> "dateonly"]

\* the directory left by earlier runs, sampled
StoredBackups ==
  { {},
    { BackupName(DayMs), BackupName(5 * DayMs), BackupName(9 * DayMs),
      BackupName(12 * DayMs), BackupName(15 * DayMs + BackupIntervalMs \div 2) },
    { DateOnlyName(DayMs), BackupName(10 * DayMs), BackupName(11 * DayMs) } }

\* new Date().toISOString() with '-', ':' and the milliseconds removed
BackupTimestamp(t) == BackupName(t - (t % SecondMs))

\* /^binance_data_(\d{8}T\d{6}Z)\.sqlite$/
MatchesBackupPattern(name) == name.format = "basic"

\* a Date.parse that reads the basic format as well
DateParseAnyFormat(name) == <<name.ms>>

\* Date.parse of the digits of a name: the time value, or no value (NaN) for a
\* string that is not in the extended format YYYY-MM-DDTHH:mm:ssZ
DateParse(name) == IF name.format = "extended" THEN <<name.ms>> ELSE <<>>

\* extractTimestamp: <<>> for null
ExtractTimestamp(name) ==
  IF ~ MatchesBackupPattern(name) THEN <<>> ELSE DateParse(name)

\* the days since 1970-01-01 of a time value, its day of the week (0 = Sunday),
\* and the calendar year of a day of the years the model's clock covers
UTCDayNumber(ts) == ts \div DayMs
GetUTCDay(day) == (day + ThursdayOffset) % DaysPerWeek
GetUTCFullYear(day) == IF day < 0 THEN 1969 ELSE 1970
YearStart(year) == IF year = 1969 THEN 0 - 365 ELSE 0

\* getIsoWeekKey
GetIsoWeekKey(ts) ==
  LET day == UTCDayNumber(ts)
      dayNum == IF GetUTCDay(day) = 0 THEN DaysPerWeek ELSE GetUTCDay(day)
      target == day + ThursdayOffset - dayNum
      year == GetUTCFullYear(target)
      weekNo == ((target - YearStart(year)) + 1 + (DaysPerWeek - 1)) \div DaysPerWeek
  IN <<year, weekNo>>

\* listBackupFiles: the names, sorted
RECURSIVE SortNames(_)
SortNames(names) ==
  IF names = {} THEN <<>>
  ELSE LET first == CHOOSE n \in names :
                      \A o \in names :
                        n.ms < o.ms \/ (n.ms = o.ms /\ (n.format = "basic" \/ n = o))
       IN <<first>> \o SortNames(names \ {first})

\* the loop of enforceRetention over files[i..]: the names to delete
RECURSIVE RetentionLoop(_, _, _, _, _, _)
RetentionLoop(files, i, dailyThreshold, weeklyThreshold, weeklyKeeper, toDelete) ==
  IF i > Len(files) THEN toDelete
  ELSE
    LET file == files[i]
        timestamp == ExtractTimestamp(file)
        continue(keeper, del) ==
          RetentionLoop(files, i + 1, dailyThreshold, weeklyThreshold, keeper, del)
    IN IF timestamp = <<>> \/ timestamp = <<0>> THEN continue(weeklyKeeper, toDelete)
       ELSE IF timestamp[1] >= dailyThreshold THEN continue(weeklyKeeper, toDelete)
       ELSE IF timestamp[1] < weeklyThreshold
            THEN continue(weeklyKeeper, toDelete \cup {file})
       ELSE LET weekKey == GetIsoWeekKey(timestamp[1])
                existing == {k \in weeklyKeeper : k.weekKey = weekKey}
            IN IF existing = {} \/ \A k \in existing : k.timestamp < timestamp[1]
               THEN continue((weeklyKeeper \ existing)
                               \cup {[weekKey |-> weekKey, path |-> file,
                                      timestamp |-> timestamp[1]]},
                             toDelete \cup {k.path : k \in existing})
               ELSE continue(weeklyKeeper, toDelete \cup {file})

\* enforceRetention: the directory after the pass at the given Date.now()
EnforceRetention(files, t, retention) ==
  files \ RetentionLoop(SortNames(files), 1,
                        t - retention.dailyDays * DayMs,
                        t - retention.weeklyWeeks * DaysPerWeek * DayMs, {}, {})

\* schedule(delayMs)
BsSchedule(c, delayMs) ==
  [c EXCEPT !.timer = c.nextId,
            !.pending = @ \cup {[id |-> c.nextId, due |-> c.now + delayMs]},
            !.nextId = @ + 1]

\* a run() that does not look at this.running
RunningNever(c) == FALSE

\* if (this.running)
Running(c) == c.running

\* start()
BsStart ==
  /\ bs.timer = 0
  /\ bs.starts < MaxBsStarts
  /\ bs' = [BsSchedule(bs, 0) EXCEPT !.starts = @ + 1, !.halted = FALSE]
  /\ UNCHANGED <<backupFiles, exceptBS>>

\* stop()
BsStop ==
  /\ bs.timer # 0
  /\ bs' = [bs EXCEPT !.pending = {t \in @ : t.id # bs.timer}, !.timer = 0,
                      !.halted = TRUE]
  /\ UNCHANGED <<backupFiles, exceptBS>>

\* a timeout fires and run() finds the previous run in progress
BsRunSkipped(t) ==
  /\ t \in bs.pending /\ t.due <= bs.now
  /\ bs.fires < MaxBsFires
  /\ Running(bs)
  /\ bs' = [BsSchedule([bs EXCEPT !.pending = @ \ {t}], BackupIntervalMs)
              EXCEPT !.fires = @ + 1]
  /\ UNCHANGED <<backupFiles, exceptBS>>

\* a timeout fires and run() begins
BsRunBegins(t) ==
  /\ t \in bs.pending /\ t.due <= bs.now
  /\ bs.fires < MaxBsFires
  /\ ~ Running(bs)
  /\ bs' = [bs EXCEPT !.pending = @ \ {t}, !.fires = @ + 1, !.running = TRUE,
                      !.step = Append(@, "performBackup")]
  /\ UNCHANGED <<backupFiles, exceptBS>>

\* performBackup() of the run at position r: the copy is made, or a step throws
BsPerformBackup(r, ok) ==
  /\ r \in 1..Len(bs.step) /\ bs.step[r] = "performBackup"
  /\ backupFiles' = IF ok THEN backupFiles \cup {BackupTimestamp(bs.now)} ELSE backupFiles
  /\ bs' = [bs EXCEPT !.step[r] = IF ok THEN "enforceRetention" ELSE "finally"]
  /\ UNCHANGED exceptBS

\* enforceRetention(): the pass over the directory, or readdir throws
BsEnforceRetention(r, ok) ==
  /\ r \in 1..Len(bs.step) /\ bs.step[r] = "enforceRetention"
  /\ backupFiles' = IF ok THEN EnforceRetention(backupFiles, bs.now, bs.retention)
                    ELSE backupFiles
  /\ bs' = [bs EXCEPT !.step[r] = IF ok THEN "pruneHistoricalData" ELSE "finally",
                      !.pass = IF ok THEN [done |-> TRUE, at |-> bs.now,
                                           before |-> backupFiles]
                               ELSE @]
  /\ UNCHANGED exceptBS

\* pruneHistoricalData(), which logs its own errors
BsPrune(r) ==
  /\ r \in 1..Len(bs.step) /\ bs.step[r] = "pruneHistoricalData"
  /\ bs' = [bs EXCEPT !.step[r] = "finally"]
  /\ UNCHANGED <<backupFiles, exceptBS>>

\* finally: this.running = false; this.schedule(this.options.intervalMs)
BsFinally(r) ==
  /\ r \in 1..Len(bs.step) /\ bs.step[r] = "finally"
  /\ bs' = [BsSchedule(bs, BackupIntervalMs)
              EXCEPT !.running = FALSE,
                     !.step = SubSeq(bs.step, 1, r - 1)
                                \o SubSeq(bs.step, r + 1, Len(bs.step))]
  /\ UNCHANGED <<backupFiles, exceptBS>>

\* Date.now() advances, no further than the next timeout that is due
BsAdvance ==
  /\ bs.ticks < MaxBsTicks
  /\ \E d \in BsTickMs :
       /\ \A t \in bs.pending : bs.now + d <= t.due
       /\ bs' = [bs EXCEPT !.now = @ + d, !.ticks = @ + 1]
  /\ UNCHANGED <<backupFiles, exceptBS>>

NextBS ==
  \/ BsStart
  \/ BsStop
  \/ \E t \in bs.pending : BsRunSkipped(t)
  \/ \E t \in bs.pending : BsRunBegins(t)
  \/ \E r \in 1..Len(bs.step), ok \in BOOLEAN : BsPerformBackup(r, ok)
  \/ \E r \in 1..Len(bs.step), ok \in BOOLEAN : BsEnforceRetention(r, ok)
  \/ \E r \in 1..Len(bs.step) : BsPrune(r)
  \/ \E r \in 1..Len(bs.step) : BsFinally(r)
  \/ BsAdvance

NoPass == [done |-> FALSE, at |-> 0, before |-> {}]

BsRecord(retention) ==
  [timer |-> 0, pending |-> {}, nextId |-> 1, running |-> FALSE, step |-> <<>>,
   now |-> BsStartMs, ticks |-> 0, fires |-> 0, starts |-> 0, halted |-> FALSE,
   retention |-> retention, pass |-> NoPass]

InitBS ==
  /\ backupFiles \in StoredBackups
  /\ \E retention \in RetentionSamples : bs = BsRecord(retention)

QuietBS ==
  /\ backupFiles = {}
  /\ bs = BsRecord(DEFAULT_RETENTION)

---------------------------------------------------------------------------
\* Part XII: the transaction chain of DatabaseManager and its one connection

\* Bounds of the model
MaxTxBlocks == 3             \* calls of withTransaction
MaxTxWrites == 2             \* writes issued with this.run or db.run
MaxMigrationRuns == 1        \* calls of runMigrations

\* the operations that write with this.run or db.run, outside withTransaction
DirectWriters == {"saveProcessingState", "saveCVDData", "markAlertAttempt"}

\* whether the block's fn resolves or throws
BlockModes == {"resolves", "throws"}

NoOwner == [kind |-> "none", id |-> 0]
Block(id) == [kind |-> "block", id |-> id]
Direct(n) == [kind |-> "direct", id |-> n]
Migration == [kind |-> "migration", id |-> 0]

\* a statement executed on the connection: who issued it, whose transaction was
\* open when it arrived, and whether SQLite accepted it
Statement(op, by, c, ok) == [op |-> op, by |-> by, owner |-> c.owner, ok |-> ok]

\* BEGIN and BEGIN IMMEDIATE: SQLite refuses a transaction within a transaction
CanBegin(c) == c.owner = NoOwner

\* a chain on which a block does not wait for the blocks before it
ChainIgnored(c, id) == TRUE

\* this.transactionChain.then(run): run starts when every block submitted before
\* has settled, whether it resolved or rejected
ChainSettled(c, id) == \A j \in 1..(id - 1) : c.pc[j] = "settled"

\* a write on the connection: part of the open transaction, or committed at once
Write(c, tag) ==
  IF c.owner = NoOwner THEN [c EXCEPT !.durable = @ \cup {tag}]
  ELSE [c EXCEPT !.uncommitted = @ \cup {tag}]

\* COMMIT
Commit(c) ==
  [c EXCEPT !.durable = @ \cup c.uncommitted, !.uncommitted = {}, !.owner = NoOwner]

\* ROLLBACK
Rollback(c) == [c EXCEPT !.uncommitted = {}, !.owner = NoOwner]

\* withTransaction(fn): the block joins the chain
TxSubmit(mode) ==
  /\ Len(tx.blocks) < MaxTxBlocks
  /\ tx' = [tx EXCEPT !.blocks = Append(@, mode),
                      !.pc = Append(@, "queued"),
                      !.outcome = Append(@, "pending")]
  /\ UNCHANGED <<txLog, exceptTX>>

\* run: await this.exec('BEGIN IMMEDIATE TRANSACTION'); a refusal rejects the
\* block's promise before fn is called
TxBegin(id) ==
  /\ id \in 1..Len(tx.blocks) /\ tx.pc[id] = "queued"
  /\ ChainSettled(tx, id)
  /\ txLog' = txLog \cup {Statement("BEGIN IMMEDIATE", Block(id), tx, CanBegin(tx))}
  /\ tx' = IF CanBegin(tx)
           THEN [tx EXCEPT !.owner = Block(id), !.pc[id] = "fn"]
           ELSE [tx EXCEPT !.pc[id] = "settled", !.outcome[id] = "rejected",
                           !.refused = @ \cup {id}]
  /\ UNCHANGED exceptTX

\* await fn(db): the block's statement runs, then fn resolves or throws
TxBody(id) ==
  /\ id \in 1..Len(tx.blocks) /\ tx.pc[id] = "fn"
  /\ txLog' = txLog \cup {Statement("WRITE", Block(id), tx, TRUE)}
  /\ tx' = [Write(tx, Block(id)) EXCEPT
              !.pc[id] = IF tx.blocks[id] = "resolves" THEN "commit" ELSE "rollback"]
  /\ UNCHANGED exceptTX

\* await this.exec('COMMIT'); return result
TxCommit(id) ==
  /\ id \in 1..Len(tx.blocks) /\ tx.pc[id] = "commit"
  /\ txLog' = txLog \cup {Statement("COMMIT", Block(id), tx, TRUE)}
  /\ tx' = [Commit(tx) EXCEPT !.pc[id] = "settled", !.outcome[id] = "resolved"]
  /\ UNCHANGED exceptTX

\* catch: await this.exec('ROLLBACK'); throw error
TxRollback(id) ==
  /\ id \in 1..Len(tx.blocks) /\ tx.pc[id] = "rollback"
  /\ txLog' = txLog \cup {Statement("ROLLBACK", Block(id), tx, TRUE)}
  /\ tx' = [Rollback(tx) EXCEPT !.pc[id] = "settled", !.outcome[id] = "rejected"]
  /\ UNCHANGED exceptTX

\* saveProcessingState, saveCVDData, markAlertAttempt: await this.run(sql)
TxDirectWrite(writer) ==
  /\ tx.writes < MaxTxWrites
  /\ txLog' = txLog \cup {Statement("WRITE", Direct(tx.writes + 1), tx, TRUE)}
  /\ tx' = [Write(tx, Direct(tx.writes + 1)) EXCEPT
              !.writes = @ + 1, !.writers = Append(@, writer)]
  /\ UNCHANGED exceptTX

\* runMigrations: await this.exec('BEGIN'), outside the try block
TxMigrateBegin ==
  /\ tx.migrations < MaxMigrationRuns /\ tx.migration = "idle"
  /\ txLog' = txLog \cup {Statement("BEGIN", Migration, tx, CanBegin(tx))}
  /\ tx' = IF CanBegin(tx)
           THEN [tx EXCEPT !.owner = Migration, !.migration = "statements",
                           !.migrations = @ + 1]
           ELSE [tx EXCEPT !.migrations = @ + 1]
  /\ UNCHANGED exceptTX

\* runMigrations: the statements of the migrations, each with this.run
TxMigrateStatements ==
  /\ tx.migration = "statements"
  /\ txLog' = txLog \cup {Statement("WRITE", Migration, tx, TRUE)}
  /\ tx' = [Write(tx, Migration) EXCEPT !.migration = "commit"]
  /\ UNCHANGED exceptTX

\* runMigrations: await this.exec('COMMIT')
TxMigrateCommit ==
  /\ tx.migration = "commit"
  /\ txLog' = txLog \cup {Statement("COMMIT", Migration, tx, TRUE)}
  /\ tx' = [Commit(tx) EXCEPT !.migration = "idle"]
  /\ UNCHANGED exceptTX

NextTX ==
  \/ \E mode \in BlockModes : TxSubmit(mode)
  \/ \E id \in 1..Len(tx.blocks) : TxBegin(id)
  \/ \E id \in 1..Len(tx.blocks) : TxBody(id)
  \/ \E id \in 1..Len(tx.blocks) : TxCommit(id)
  \/ \E id \in 1..Len(tx.blocks) : TxRollback(id)
  \/ \E writer \in DirectWriters : TxDirectWrite(writer)
  \/ TxMigrateBegin
  \/ TxMigrateStatements
  \/ TxMigrateCommit

\* the connection after open, with an empty chain
InitTX ==
  /\ txLog = {}
  /\ tx = [blocks |-> <<>>, pc |-> <<>>, outcome |-> <<>>, refused |-> {},
           owner |-> NoOwner, uncommitted |-> {}, durable |-> {},
           writes |-> 0, writers |-> <<>>, migration |-> "idle", migrations |-> 0]

---------------------------------------------------------------------------
\* Part XIII: AggTradeDatabaseManager, one store and one promise chain per asset

MaxAdCalls == 3       \* saveAggTrades and getLastAggTradeCheckpoint calls made
MaxAdFailures == 1    \* bulk inserts that fail

AdAssets == {"BTC", "ETH"}
AdTrade(id) == [symbol |-> "BTCUSDT", marketType |-> "SPOT", tradeId |-> id,
                tradeTime |-> 1000 + id]
AdTradeSamples == {<<>>, <<AdTrade(1), AdTrade(2)>>, <<AdTrade(2), AdTrade(3)>>}

SeqRange(s) == {s[i] : i \in 1..Len(s)}

\* getHandle: the handle of the asset, opened on first use with a resolved chain
GetHandle(hs, a) ==
  IF hs[a].open = "absent"
  THEN [hs EXCEPT ![a] = [@ EXCEPT !.open = "open", !.rejected = FALSE]]
  ELSE hs

\* insertTrades: BEGIN IMMEDIATE, one INSERT OR IGNORE per trade, COMMIT; a
\* failure rolls the rows of the call back and is thrown
AggInsertTrades(rows, trades, ok) ==
  IF ok
  THEN rows \cup {t \in SeqRange(trades) :
                    \A r \in rows : TradeKey(r) # TradeKey(t)}
  ELSE rows

\* the row ORDER BY trade_id DESC LIMIT 1 of one symbol and market
LastAggTrade(rows, symbol, marketType) ==
  LET mine == {r \in rows : r.symbol = symbol /\ r.marketType = marketType}
  IN IF mine = {} THEN Undefined
     ELSE LET top == CHOOSE r \in mine : \A o \in mine : o.tradeId <= r.tradeId
          IN [tradeId |-> top.tradeId, tradeTime |-> top.tradeTime]

\* handle.chain once the promise it names has settled: a promise made by
\* chain.then(f) of a rejected chain is rejected without f being called
ChainAlwaysResolved(h) == FALSE
ChainRejected(h) == h.rejected

AdCall(op, a, trades) ==
  [op |-> op, asset |-> a, trades |-> trades, state |-> "pending", ran |-> FALSE,
   failed |-> FALSE, result |-> Undefined]

\* saveAggTrades(asset, trades): nothing for an empty list; otherwise the insert
\* is chained behind the asset's chain and the call awaits it
AdSaveAggTrades(a, trades) ==
  /\ ad.close = "none"
  /\ Len(ad.calls) < MaxAdCalls
  /\ LET k == Len(ad.calls) + 1
     IN IF trades = <<>>
        THEN /\ ad' = [ad EXCEPT !.calls =
                        Append(@, [AdCall("save", a, trades) EXCEPT !.state = "resolved"])]
             /\ UNCHANGED stores
        ELSE /\ ad' = [ad EXCEPT !.calls = Append(@, AdCall("save", a, trades)),
                                 !.order = IF stores[a].open = "absent"
                                           THEN Append(@, a) ELSE @]
             /\ stores' = [GetHandle(stores, a) EXCEPT ![a].chain = Append(@, k)]
  /\ UNCHANGED exceptAD

\* getLastAggTradeCheckpoint(asset, symbol, marketType): awaits the chain as it
\* is at the call, then reads
AdGetLastAggTradeCheckpoint(a) ==
  /\ ad.close = "none"
  /\ Len(ad.calls) < MaxAdCalls
  /\ ad' = [ad EXCEPT !.calls = Append(@, AdCall("checkpoint", a, <<>>)),
                      !.order = IF stores[a].open = "absent" THEN Append(@, a) ELSE @]
  /\ stores' = [GetHandle(stores, a) EXCEPT ![a].chain = Append(@, Len(ad.calls) + 1)]
  /\ UNCHANGED exceptAD

\* the chain reaches an insert: insertTrades runs, and its outcome is the
\* outcome of the chain and of the call
AdInsertTrades(a, ok) ==
  /\ stores[a].chain # <<>>
  /\ LET k == Head(stores[a].chain)
     IN /\ ad.calls[k].op = "save"
        /\ ~ ChainRejected(stores[a])
        /\ ok \/ ad.failures < MaxAdFailures
        /\ stores' = [stores EXCEPT
                        ![a].chain = Tail(@),
                        ![a].rows = AggInsertTrades(@, ad.calls[k].trades, ok),
                        ![a].rejected = ~ ok]
        /\ ad' = [ad EXCEPT !.calls[k].state = IF ok THEN "resolved" ELSE "rejected",
                            !.calls[k].ran = TRUE,
                            !.calls[k].failed = ~ ok,
                            !.failures = IF ok THEN @ ELSE @ + 1,
                            !.inserted = Append(@, k)]
  /\ UNCHANGED exceptAD

\* the chain reaches an insert behind a rejected chain: the insert is not
\* called and the call's await throws the earlier error
AdInsertSkipped(a) ==
  /\ stores[a].chain # <<>>
  /\ LET k == Head(stores[a].chain)
     IN /\ ad.calls[k].op = "save"
        /\ ChainRejected(stores[a])
        /\ stores' = [stores EXCEPT ![a].chain = Tail(@)]
        /\ ad' = [ad EXCEPT !.calls[k].state = "rejected"]
  /\ UNCHANGED exceptAD

\* the await of getLastAggTradeCheckpoint ends: it throws behind a rejected
\* chain, and otherwise the query runs
AdCheckpointReads(a) ==
  /\ stores[a].chain # <<>>
  /\ LET k == Head(stores[a].chain)
     IN /\ ad.calls[k].op = "checkpoint"
        /\ stores' = [stores EXCEPT ![a].chain = Tail(@)]
        /\ ad' = [ad EXCEPT
                    !.calls[k].state =
                       IF ChainRejected(stores[a]) THEN "rejected" ELSE "resolved",
                    !.calls[k].ran = ~ ChainRejected(stores[a]),
                    !.calls[k].result =
                       IF ChainRejected(stores[a]) THEN Undefined
                       ELSE LastAggTrade(stores[a].rows, "BTCUSDT", "SPOT")]
  /\ UNCHANGED exceptAD

\* close(): the handles are taken out of the map and visited in the order they
\* were opened
AdClose ==
  /\ ad.close = "none"
  /\ ad' = [ad EXCEPT !.close = "closing", !.toClose = ad.order]
  /\ UNCHANGED <<stores, exceptAD>>

\* close(), one handle: await handle.chain, then db.close(); a rejected chain
\* throws out of close() and the handles not yet visited stay open
AdCloseHandle ==
  /\ ad.close = "closing"
  /\ IF ad.toClose = <<>>
     THEN /\ ad' = [ad EXCEPT !.close = "resolved"]
          /\ UNCHANGED stores
     ELSE LET a == Head(ad.toClose)
          IN /\ stores[a].chain = <<>>
             /\ IF ChainRejected(stores[a])
                THEN /\ ad' = [ad EXCEPT !.close = "rejected", !.toClose = Tail(@)]
                     /\ UNCHANGED stores
                ELSE /\ ad' = [ad EXCEPT !.toClose = Tail(@)]
                     /\ stores' = [stores EXCEPT ![a].open = "closed"]
  /\ UNCHANGED exceptAD

NextAD ==
  \/ \E a \in AdAssets, trades \in AdTradeSamples : AdSaveAggTrades(a, trades)
  \/ \E a \in AdAssets : AdGetLastAggTradeCheckpoint(a)
  \/ \E a \in AdAssets, ok \in BOOLEAN : AdInsertTrades(a, ok)
  \/ \E a \in AdAssets : AdInsertSkipped(a)
  \/ \E a \in AdAssets : AdCheckpointReads(a)
  \/ AdClose
  \/ AdCloseHandle

NoHandle == [open |-> "absent", rows |-> {}, chain |-> <<>>, rejected |-> FALSE]

InitAD ==
  /\ stores = [a \in AdAssets |-> NoHandle]
  /\ ad = [calls |-> <<>>, order |-> <<>>, failures |-> 0, inserted |-> <<>>,
           close |-> "none", toClose |-> <<>>]

---------------------------------------------------------------------------
\* Part XIV: AggTradeCollector, the historical cycles over the per-asset stores

MaxAgCycles == 2          \* cycles begun: the initial one and scheduled ones
MaxAgFetchFailures == 2   \* page requests that fail
MaxAgSaveFailures == 1    \* bulk inserts that fail
RestLimit == 2            \* options.restLimit
AgMaxRetries == 2         \* options.maxRetries

MAX_REST_ITERATIONS == 50
REQUEST_COOLDOWN_MS == 500
DEFAULT_FETCH_INTERVAL_MS == 3600000
DEFAULT_RETRY_DELAY_MS == 5000
DEFAULT_INITIAL_LOOKBACK_MS == 12 * HourMs
AgStartMs == 13 * HourMs          \* Date.now() when start() is called
AgLatencyMs == SecondMs           \* the time one REST request takes

\* resolveTargetPairs: per asset its SPOT pair and its perpetual pair
AgTargets ==
  <<[asset |-> "BTC", symbol |-> "BTCUSDT", marketType |-> "SPOT"],
    [asset |-> "BTC", symbol |-> "BTCUSDT", marketType |-> "USDT-M"],
    [asset |-> "ETH", symbol |-> "ETHUSDT", marketType |-> "SPOT"]>>
AgCloseOrder == <<"BTC", "ETH">>

AgTrade(n, id, time) ==
  [symbol |-> AgTargets[n].symbol, marketType |-> AgTargets[n].marketType,
   tradeId |-> id, tradeTime |-> time]

\* what the exchange holds, by target, in the order of the trade ids
AgWorlds == {"busy", "sameMs", "steady"}
Exchange(w, n) ==
  CASE w = "busy" /\ n = 1 ->
         [i \in 1..(MAX_REST_ITERATIONS * RestLimit + 1) |->
            AgTrade(1, i, AgStartMs - 1000 + i)]
    [] w = "sameMs" /\ n = 1 ->
         <<AgTrade(1, 1, AgStartMs - 10), AgTrade(1, 2, AgStartMs - 9),
           AgTrade(1, 3, AgStartMs - 9), AgTrade(1, 4, AgStartMs - 8)>>
    [] w = "steady" /\ n = 1 ->
         <<AgTrade(1, 1, AgStartMs - 5), AgTrade(1, 2, AgStartMs + 500),
           AgTrade(1, 3, AgStartMs + HourMs)>>
    [] w = "steady" /\ n = 2 -> <<AgTrade(2, 1, AgStartMs - 7)>>
    [] w = "steady" /\ n = 3 -> <<AgTrade(3, 1, AgStartMs - 3)>>
    [] OTHER -> <<>>

Take(s, n) == SubSeq(s, 1, Min(n, Len(s)))

\* fetchAggTrades(symbol, marketType, {startTime, limit}) answered at time t:
\* the first trades, up to limit, with tradeTime >= startTime
FetchAggTrades(w, n, startTime, limit, t) ==
  LET InRange(x) == x.tradeTime >= startTime /\ x.tradeTime <= t
  IN Take(SelectSeq(Exchange(w, n), InRange), limit)

\* the start cursor of a target's loop
StartCursor(checkpoint, mode, t) ==
  LET cursor == IF checkpoint # Undefined THEN checkpoint.tradeTime + 1
                ELSE t - DEFAULT_INITIAL_LOOKBACK_MS
  IN IF mode = "scheduled" THEN Max(cursor, t - DEFAULT_FETCH_INTERVAL_MS) ELSE cursor

\* cursor = lastTrade.tradeTime + 1
NextCursor(trades) == trades[Len(trades)].tradeTime + 1

WithinIterationsAlways(c) == TRUE
WithinIterations(c) == c.iterations < MAX_REST_ITERATIONS

NoLoopEnd == [target |-> 0, reason |-> "none", start |-> 0, last |-> 0]

\* the for loop moves to the next target; the loop of target ag.i ended for reason
NextTarget(c, reason) ==
  [c EXCEPT !.i = @ + 1, !.pc = "target", !.page = <<>>,
            !.ended = [target |-> c.i, reason |-> reason, start |-> c.startCursor,
                       last |-> c.lastFetched]]

\* the catch blocks of the page loop: emit('error') and break
EmitErrorAndBreak(c) ==
  [NextTarget(c, "error") EXCEPT !.errors = @ + 1]

\* start(): past the asset list and the targets, runCycle('initial')
AgStart ==
  /\ ~ ag.isRunning /\ ag.cycles = 0
  /\ ag' = [ag EXCEPT !.isRunning = TRUE, !.mode = "initial", !.cycles = 1,
                      !.i = 1, !.pc = "target", !.storedTotal = 0]
  /\ UNCHANGED <<stores, exceptAG>>

\* performFetch, one target of the for loop up to the page loop: the checkpoint
\* is read outside any try, so its rejection rejects the cycle
AgBeginTarget ==
  /\ ag.pc = "target"
  /\ IF ag.i > Len(AgTargets) \/ ~ ag.isRunning
     THEN /\ ag' = [ag EXCEPT !.pc = "done"]
          /\ UNCHANGED stores
     ELSE LET a == AgTargets[ag.i].asset
              hs == GetHandle(stores, a)
          IN /\ stores' = hs
             /\ IF ChainRejected(hs[a])
                THEN ag' = [ag EXCEPT !.pc = "thrown"]
                ELSE LET checkpoint == LastAggTrade(hs[a].rows, AgTargets[ag.i].symbol,
                                                    AgTargets[ag.i].marketType)
                         cursor == StartCursor(checkpoint, ag.mode, ag.now)
                     IN ag' = [ag EXCEPT !.pc = "loop", !.cursor = cursor,
                                         !.checkpoint = checkpoint,
                                         !.startCursor = cursor, !.lastFetched = 0,
                                         !.iterations = 0, !.asked = <<>>,
                                         !.begun = @ \cup {ag.i}]
  /\ UNCHANGED exceptAG

\* while (this.isRunning && iterations < MAX_REST_ITERATIONS): the page request
\* with startTime = cursor is issued, or the loop ends
AgLoopTop ==
  /\ ag.pc = "loop"
  /\ ag' = IF ag.isRunning /\ WithinIterations(ag)
           THEN [ag EXCEPT !.iterations = @ + 1, !.attempt = 0, !.pc = "attempt",
                           !.asked = Append(@, ag.cursor)]
           ELSE NextTarget(ag, IF ag.isRunning THEN "limit" ELSE "stopped")
  /\ UNCHANGED <<stores, exceptAG>>

\* fetchAggTradesWithRetry, the request in flight settles: the page, or a failure
\* that is the last one allowed and is thrown, or a failure followed by the delay
AgAttempt(ok) ==
  /\ ag.pc = "attempt"
  /\ ok \/ ag.fetchFailures < MaxAgFetchFailures
  /\ LET c == [ag EXCEPT !.attempt = @ + 1, !.now = @ + AgLatencyMs]
         trades == FetchAggTrades(ag.world, ag.i, ag.cursor, RestLimit, ag.now)
     IN ag' = IF ok
              THEN IF trades = <<>> THEN NextTarget(c, "empty")
                   ELSE [c EXCEPT !.pc = "save", !.page = trades,
                                  !.lastFetched = trades[Len(trades)].tradeTime]
              ELSE LET f == [c EXCEPT !.fetchFailures = @ + 1]
                   IN IF f.attempt >= AgMaxRetries THEN EmitErrorAndBreak(f)
                      ELSE [f EXCEPT !.pc = "retryDelay"]
  /\ UNCHANGED <<stores, exceptAG>>

\* the retry delay ends; the request is issued again only while the collector runs
AgRetryDelayEnds ==
  /\ ag.pc = "retryDelay"
  /\ LET c == [ag EXCEPT !.now = @ + DEFAULT_RETRY_DELAY_MS]
     IN ag' = IF c.isRunning THEN [c EXCEPT !.pc = "attempt"]
              ELSE EmitErrorAndBreak(c)
  /\ UNCHANGED <<stores, exceptAG>>

\* saveAggTrades of the page, then the cursor and the tests that end the loop
AgSave(ok) ==
  /\ ag.pc = "save"
  /\ ok \/ ag.saveFailures < MaxAgSaveFailures
  /\ LET a == AgTargets[ag.i].asset
         hs == GetHandle(stores, a)
     IN IF ChainRejected(hs[a])
        THEN /\ stores' = hs
             /\ ag' = EmitErrorAndBreak(ag)
        ELSE /\ stores' = [hs EXCEPT ![a].rows = AggInsertTrades(@, ag.page, ok),
                                     ![a].rejected = ~ ok]
             /\ ag' = IF ~ ok
                      THEN [EmitErrorAndBreak(ag) EXCEPT !.saveFailures = @ + 1]
                      ELSE LET c == [ag EXCEPT !.storedTotal = @ + Len(ag.page),
                                               !.cursor = NextCursor(ag.page)]
                           IN IF Len(ag.page) < RestLimit THEN NextTarget(c, "short")
                              ELSE [c EXCEPT !.pc = "cooldown"]
  /\ UNCHANGED exceptAG

\* await this.delay(REQUEST_COOLDOWN_MS)
AgCooldownEnds ==
  /\ ag.pc = "cooldown"
  /\ ag' = [ag EXCEPT !.now = @ + REQUEST_COOLDOWN_MS, !.pc = "loop", !.page = <<>>]
  /\ UNCHANGED <<stores, exceptAG>>

\* scheduleNext
AgScheduleNext(c) ==
  IF c.isRunning THEN [c EXCEPT !.timer = c.now + DEFAULT_FETCH_INTERVAL_MS] ELSE c

\* performFetch returns: tradeStored, and start() or the timer callback's finally
\* schedules the next cycle
AgCycleEnds ==
  /\ ag.pc = "done"
  /\ ag' = AgScheduleNext([ag EXCEPT !.pc = "idle", !.completed = @ + 1,
                                     !.stored = IF ag.storedTotal > 0 THEN @ + 1 ELSE @])
  /\ UNCHANGED <<stores, exceptAG>>

\* performFetch rejects: start() rejects with it before scheduleNext; the timer
\* callback's finally schedules and the rejection is left unhandled
AgCycleThrows ==
  /\ ag.pc = "thrown"
  /\ ag' = IF ag.mode = "initial" THEN [ag EXCEPT !.pc = "idle", !.rejected = @ + 1]
           ELSE AgScheduleNext([ag EXCEPT !.pc = "idle", !.rejected = @ + 1])
  /\ UNCHANGED <<stores, exceptAG>>

\* the timer callback: runCycle('scheduled')
AgTimerFires ==
  /\ ag.timer # 0 /\ ag.pc = "idle"
  /\ ag.cycles < MaxAgCycles
  /\ ag' = [ag EXCEPT !.now = Max(@, ag.timer), !.timer = 0, !.mode = "scheduled",
                      !.cycles = @ + 1, !.i = 1, !.pc = "target", !.storedTotal = 0,
                      !.begun = {}, !.errors = 0, !.ended = NoLoopEnd]
  /\ UNCHANGED <<stores, exceptAG>>

\* stop() up to the await of the current cycle
AgStop ==
  /\ ag.isRunning
  /\ ag' = [ag EXCEPT !.isRunning = FALSE, !.timer = 0, !.stopping = TRUE]
  /\ UNCHANGED <<stores, exceptAG>>

RECURSIVE CloseHandles(_, _)
\* close(): the handles in the order they were opened, up to the first whose
\* chain is rejected
CloseHandles(hs, order) ==
  IF order = <<>> THEN hs
  ELSE LET a == Head(order)
       IN IF hs[a].open # "open" THEN CloseHandles(hs, Tail(order))
          ELSE IF ChainRejected(hs[a]) THEN hs
          ELSE CloseHandles([hs EXCEPT ![a].open = "closed"], Tail(order))

\* stop() after the cycle has settled: db.close()
AgStopCloses ==
  /\ ag.stopping /\ ag.pc = "idle"
  /\ stores' = CloseHandles(stores, AgCloseOrder)
  /\ ag' = [ag EXCEPT !.stopping = FALSE]
  /\ UNCHANGED exceptAG

NextAG ==
  \/ AgStart
  \/ AgBeginTarget
  \/ AgLoopTop
  \/ \E ok \in BOOLEAN : AgAttempt(ok)
  \/ AgRetryDelayEnds
  \/ \E ok \in BOOLEAN : AgSave(ok)
  \/ AgCooldownEnds
  \/ AgCycleEnds
  \/ AgCycleThrows
  \/ AgTimerFires
  \/ AgStop
  \/ AgStopCloses

AgRecord(w) ==
  [world |-> w, now |-> AgStartMs, isRunning |-> FALSE, stopping |-> FALSE,
   timer |-> 0, pc |-> "idle", mode |-> "initial", cycles |-> 0, completed |-> 0,
   rejected |-> 0, i |-> 1, cursor |-> 0, startCursor |-> 0, lastFetched |-> 0,
   checkpoint |-> Undefined, iterations |-> 0, attempt |-> 0,
   page |-> <<>>, asked |-> <<>>, storedTotal |-> 0, stored |-> 0, errors |-> 0,
   fetchFailures |-> 0, saveFailures |-> 0, begun |-> {}, ended |-> NoLoopEnd]

InitAG == ag \in {AgRecord(w) : w \in AgWorlds}
QuietAG == ag = AgRecord("steady")

---------------------------------------------------------------------------
\* Part XV: AlertService.sendCvdAlert, the webhook posts and the history row

MaxSvCalls == 2            \* sendCvdAlert calls made
SvRetrySamples == {0, 1, 3}     \* options.maxRetries; 3 is the default
SvRetryDelayMs == SecondMs      \* options.retryDelayMs ?? 1_000
SvSymbols == {"BTC", "MIX"}
SvStartMs == HourMs

\* postWithRetry: while (attempt < this.maxRetries)
RetriesLeftAndOne(c) == c.attempt <= c.maxRetries
RetriesLeft(c) == c.attempt < c.maxRetries

\* postWithRetry gives up: alertFailed is emitted and the last error is thrown
\* out of postWithRetry and out of sendCvdAlert
SvThrow(c) ==
  [c EXCEPT !.pc = "idle", !.outcome = "threw", !.alertFailed = @ + 1]

\* postWithRetry at the top of its loop: a post is made, or it gives up
SvLoop(c) ==
  IF RetriesLeft(c) THEN [c EXCEPT !.pc = "post", !.posts = @ + 1] ELSE SvThrow(c)

\* sendCvdAlert(payload): the message is built and postWithRetry is entered
SvSendCvdAlert(symbol) ==
  /\ sv.pc = "idle" /\ sv.calls < MaxSvCalls
  /\ sv' = SvLoop([sv EXCEPT !.calls = @ + 1, !.symbol = symbol, !.attempt = 0,
                             !.posts = 0, !.posted = FALSE, !.outcome = "none",
                             !.rowsBefore = Len(sv.history)])
  /\ UNCHANGED exceptSV

\* axios.post settles: postWithRetry returns and saveAlertHistory is called, or
\* the attempt is counted and followed by the delay or by giving up
SvPostSettles(ok) ==
  /\ sv.pc = "post"
  /\ sv' = IF ok THEN [sv EXCEPT !.pc = "save", !.posted = TRUE]
           ELSE LET c == [sv EXCEPT !.attempt = @ + 1]
                IN IF RetriesLeft(c) THEN [c EXCEPT !.pc = "delay"] ELSE SvThrow(c)
  /\ UNCHANGED exceptSV

\* the retry delay ends and the loop is entered again
SvDelayEnds ==
  /\ sv.pc = "delay"
  /\ sv' = SvLoop([sv EXCEPT !.now = @ + SvRetryDelayMs])
  /\ UNCHANGED exceptSV

\* saveAlertHistory settles: the row is in alert_history, alertSent is emitted
\* and sendCvdAlert returns; or the insert rejects and sendCvdAlert throws
SvSaveSettles(ok) ==
  /\ sv.pc = "save"
  /\ sv' = IF ok
           THEN [sv EXCEPT !.pc = "idle", !.outcome = "returned",
                           !.alertSent = @ + 1,
                           !.history = Append(@, [alertType |-> "CVD_ZSCORE",
                                                  symbol |-> sv.symbol,
                                                  call |-> sv.calls])]
           ELSE [sv EXCEPT !.pc = "idle", !.outcome = "threw"]
  /\ UNCHANGED exceptSV

NextSV ==
  \/ \E symbol \in SvSymbols : SvSendCvdAlert(symbol)
  \/ \E ok \in BOOLEAN : SvPostSettles(ok)
  \/ SvDelayEnds
  \/ \E ok \in BOOLEAN : SvSaveSettles(ok)

SvRecord(n) ==
  [maxRetries |-> n, pc |-> "idle", calls |-> 0, symbol |-> "BTC", attempt |-> 0,
   posts |-> 0, posted |-> FALSE, outcome |-> "none", rowsBefore |-> 0,
   history |-> <<>>, alertSent |-> 0, alertFailed |-> 0, now |-> SvStartMs]

InitSV == sv \in {SvRecord(n) : n \in SvRetrySamples}
QuietSV == sv = SvRecord(3)

---------------------------------------------------------------------------
\* Specifications

InitSpecRL ==
  InitRL /\ InitBK /\ QuietAQ /\ QuietDB /\ InitCW /\ QuietMG /\ QuietSM /\ InitTC
  /\ InitWC /\ QuietAL /\ QuietBS /\ InitTX /\ InitAD /\ QuietAG /\ QuietSV

SpecRL == InitSpecRL /\ [][NextRL]_vars

\* time passes until the pending timer of the endpoint is due
AwaitTimer ==
  /\ endpoint.timer # NoTimer
  /\ now < endpoint.timer
  /\ now' = endpoint.timer
  /\ execLog' = Recent(execLog, endpoint.timer)
  /\ UNCHANGED <<endpoint, inflight, requests, pushCount, exceptRL>>

\* a task in flight settles; a 429 is one of its outcomes only MaxRetries times
TaskSettles ==
  \E item \in inflight :
    \/ TaskSucceeds(item)
    \/ \E outcome \in {"r429", "err"}, jitter \in JitterSamples :
         TaskFails(item, outcome, jitter)

\* schedule() with a weight the endpoint's capacity can cover
ScheduleWithinCapacity ==
  \E w \in Weights, p \in Priorities : w <= endpoint.capacity /\ Schedule(w, p)

NextRLLive ==
  \/ ScheduleWithinCapacity
  \/ TaskSettles
  \/ EndpointTimerFires
  \/ \E d \in TickSteps : Tick(d)
  \/ AwaitTimer

\* the rate limiter with an event loop that runs: time passes, due timers fire
\* and tasks terminate
SpecRLLive ==
  /\ InitSpecRL
  /\ [][NextRLLive]_vars
  /\ WF_vars(AwaitTimer) /\ WF_vars(EndpointTimerFires) /\ WF_vars(TaskSettles)

InitSpecBK ==
  QuietRL /\ InitBK /\ QuietAQ /\ QuietDB /\ InitCW /\ QuietMG /\ QuietSM /\ InitTC
  /\ InitWC /\ QuietAL /\ QuietBS /\ InitTX /\ InitAD /\ QuietAG /\ QuietSV

NextBK == \E jitter \in JitterAll : Backoff(jitter)

SpecBK == InitSpecBK /\ [][NextBK]_vars

InitSpecAQ ==
  QuietRL /\ InitBK /\ InitAQ /\ QuietDB /\ InitCW /\ QuietMG /\ QuietSM /\ InitTC
  /\ InitWC /\ QuietAL /\ QuietBS /\ InitTX /\ InitAD /\ QuietAG /\ QuietSV

SpecAQ == InitSpecAQ /\ [][NextAQ]_vars

\* the steps of a pass, each the return of an awaited store or sink call
PassStep ==
  \/ Fetch \/ ExhaustedFailure \/ ExhaustedProcessed \/ AttemptRecord
  \/ SendSucceeds \/ (\E len \in ErrorLengths : SendFails(len))
  \/ SentProcessed \/ FailureRecorded \/ FailureProcessed \/ EndPass

\* the dispatcher without stop()
NextAQLive ==
  \/ \E ts \in Timestamps : EnqueueAlert(ts)
  \/ Start
  \/ TimerFires
  \/ PassStep

\* the dispatcher kept running: its timeouts fire and the calls it awaits return
SpecAQLive ==
  /\ InitSpecAQ
  /\ [][NextAQLive]_vars
  /\ WF_vars(TimerFires) /\ WF_vars(PassStep)

InitSpecDB ==
  QuietRL /\ InitBK /\ QuietAQ /\ InitDB /\ InitCW /\ QuietMG /\ QuietSM /\ InitTC
  /\ InitWC /\ QuietAL /\ QuietBS /\ InitTX /\ InitAD /\ QuietAG /\ QuietSV

SpecDB == InitSpecDB /\ [][NextDB]_vars

InitSpecCW ==
  QuietRL /\ InitBK /\ QuietAQ /\ QuietDB /\ InitCW /\ QuietMG /\ QuietSM /\ InitTC
  /\ InitWC /\ QuietAL /\ QuietBS /\ InitTX /\ InitAD /\ QuietAG /\ QuietSV

SpecCW == InitSpecCW /\ [][NextCW]_vars

InitSpecMG ==
  QuietRL /\ InitBK /\ QuietAQ /\ QuietDB /\ InitCW /\ InitMG /\ QuietSM /\ InitTC
  /\ InitWC /\ QuietAL /\ QuietBS /\ InitTX /\ InitAD /\ QuietAG /\ QuietSV

SpecMG == InitSpecMG /\ [][NextMG]_vars

InitSpecSM ==
  QuietRL /\ InitBK /\ QuietAQ /\ QuietDB /\ InitCW /\ QuietMG /\ InitSM /\ InitTC
  /\ InitWC /\ QuietAL /\ QuietBS /\ InitTX /\ InitAD /\ QuietAG /\ QuietSV

SpecSM == InitSpecSM /\ [][NextSM]_vars

InitSpecTC ==
  QuietRL /\ InitBK /\ QuietAQ /\ QuietDB /\ InitCW /\ QuietMG /\ QuietSM /\ InitTC
  /\ InitWC /\ QuietAL /\ QuietBS /\ InitTX /\ InitAD /\ QuietAG /\ QuietSV

SpecTC == InitSpecTC /\ [][NextTC]_vars

InitSpecWC ==
  QuietRL /\ InitBK /\ QuietAQ /\ QuietDB /\ InitCW /\ QuietMG /\ QuietSM /\ InitTC
  /\ InitWC /\ QuietAL /\ QuietBS /\ InitTX /\ InitAD /\ QuietAG /\ QuietSV

SpecWC == InitSpecWC /\ [][NextWC]_vars

InitSpecAL ==
  QuietRL /\ InitBK /\ QuietAQ /\ QuietDB /\ InitCW /\ QuietMG /\ QuietSM /\ InitTC
  /\ InitWC /\ InitAL /\ QuietBS /\ InitTX /\ InitAD /\ QuietAG /\ QuietSV

SpecAL == InitSpecAL /\ [][NextAL]_vars

InitSpecBS ==
  QuietRL /\ InitBK /\ QuietAQ /\ QuietDB /\ InitCW /\ QuietMG /\ QuietSM /\ InitTC
  /\ InitWC /\ QuietAL /\ InitBS /\ InitTX /\ InitAD /\ QuietAG /\ QuietSV

SpecBS == InitSpecBS /\ [][NextBS]_vars

InitSpecTX ==
  QuietRL /\ InitBK /\ QuietAQ /\ QuietDB /\ InitCW /\ QuietMG /\ QuietSM /\ InitTC
  /\ InitWC /\ QuietAL /\ QuietBS /\ InitTX /\ InitAD /\ QuietAG /\ QuietSV

SpecTX == InitSpecTX /\ [][NextTX]_vars

\* the promise chain and the connection do their work: a statement that has been
\* issued is executed, and a settled promise runs its reactions
ChainStep ==
  \E id \in 1..Len(tx.blocks) : TxBegin(id) \/ TxBody(id) \/ TxCommit(id) \/ TxRollback(id)

SpecTXLive == SpecTX /\ WF_vars(ChainStep)

InitSpecAD ==
  QuietRL /\ InitBK /\ QuietAQ /\ QuietDB /\ InitCW /\ QuietMG /\ QuietSM /\ InitTC
  /\ InitWC /\ QuietAL /\ QuietBS /\ InitTX /\ InitAD /\ QuietAG /\ QuietSV

SpecAD == InitSpecAD /\ [][NextAD]_vars

InitSpecAG ==
  QuietRL /\ InitBK /\ QuietAQ /\ QuietDB /\ InitCW /\ QuietMG /\ QuietSM /\ InitTC
  /\ InitWC /\ QuietAL /\ QuietBS /\ InitTX /\ InitAD /\ InitAG /\ QuietSV

SpecAG == InitSpecAG /\ [][NextAG]_vars

InitSpecSV ==
  QuietRL /\ InitBK /\ QuietAQ /\ QuietDB /\ InitCW /\ QuietMG /\ QuietSM /\ InitTC
  /\ InitWC /\ QuietAL /\ QuietBS /\ InitTX /\ InitAD /\ QuietAG /\ InitSV

SpecSV == InitSpecSV /\ [][NextSV]_vars

Init ==
  InitRL /\ InitBK /\ InitAQ /\ InitDB /\ InitCW /\ InitMG /\ InitSM /\ InitTC
  /\ InitWC /\ InitAL /\ InitBS /\ InitTX /\ InitAD /\ InitAG /\ InitSV

Next ==
  \/ NextRL \/ NextBK \/ NextAQ \/ NextDB \/ NextCW \/ NextMG \/ NextSM \/ NextTC
  \/ NextWC \/ NextAL \/ NextBS \/ NextTX \/ NextAD \/ NextAG \/ NextSV

Spec == Init /\ [][Next]_vars

---------------------------------------------------------------------------
\* Properties of Part I and II

RECURSIVE SumWeights(_, _, _, _)
\* the weights of the entries log[i..] that satisfy Counts and started in [from, to)
SumWeights(log, Counts(_), from, to) ==
  IF log = <<>> THEN 0
  ELSE (IF Counts(Head(log)) /\ Head(log).at >= from /\ Head(log).at < to
        THEN Head(log).weight ELSE 0)
       + SumWeights(Tail(log), Counts, from, to)

Succeeded(e) == e.result = "ok"
AnyRun(e) == TRUE

\* the refill window a time falls in; windows are aligned to the registration time 0
WindowOf(t) == t \div RefillIntervalMs

StartedIds == {item.id : item \in inflight}
HasStarted(id) == Len(requests[id].results) > 0 \/ id \in StartedIds
QueuedIds == {endpoint.queue[i].id : i \in 1..Len(endpoint.queue)}

\* C1: in every sliding window of refillIntervalMs the weights of the successfully
\* executed requests sum to at most the capacity.  The windows examined are those that
\* begin at the start of a logged run; every other window holds a subset of one of them.
C1_SlidingWindowBound ==
  \A i \in 1..Len(execLog) :
    SumWeights(execLog, Succeeded, execLog[i].at, execLog[i].at + endpoint.refillIntervalMs)
      <= endpoint.capacity

\* What the bucket does guarantee: the runs started inside one refill window (aligned to
\* the registration time) weigh at most the capacity, whatever their results.
AlignedWindowBound ==
  \A i \in 1..Len(execLog) :
    SumWeights(execLog, AnyRun, WindowOf(execLog[i].at) * RefillIntervalMs,
               (WindowOf(execLog[i].at) + 1) * RefillIntervalMs) <= endpoint.capacity

\* C2: a task starts only when the request is due (nextAttemptAt <= now) and the tokens
\* available at that moment (the capacity when a refill boundary has passed since
\* lastRefill, the stored tokens otherwise) cover its weight, and the start lowers them by
\* exactly the weight; tokens stay in 0..capacity; with capacity 1, weight-1 requests of
\* one priority start in submission order and no two runs start in one refill window.
C2_StartNeedsTokensAndDue ==
  /\ [](endpoint.tokens >= 0 /\ endpoint.tokens <= endpoint.capacity)
  /\ [][\A item \in inflight' \ inflight :
          LET avail == IF now - endpoint.lastRefill >= endpoint.refillIntervalMs
                       THEN endpoint.capacity ELSE endpoint.tokens
          IN /\ item.nextAttemptAt <= now
             /\ avail >= item.weight
             /\ endpoint'.tokens = avail - item.weight]_vars
  /\ [](endpoint.capacity = 1 =>
          /\ \A a, b \in 1..Len(requests) :
               (a < b /\ requests[a].weight = 1 /\ requests[b].weight = 1
                 /\ requests[a].priority = requests[b].priority /\ HasStarted(b))
               => HasStarted(a)
          /\ \A i, j \in 1..Len(execLog) :
               i # j => WindowOf(execLog[i].at) # WindowOf(execLog[j].at))

\* capacity 1, two weight-1 requests submitted at time 0, both started, the second
\* while the first one's run is still in the log
C2_Witness ==
  /\ endpoint.capacity = 1
  /\ Len(requests) = 2
  /\ requests[1].weight = 1 /\ requests[2].weight = 1
  /\ HasStarted(1) /\ HasStarted(2)
  /\ endpoint.tokens = 0
  /\ Len(execLog) = 2 /\ execLog[1].id = 1 /\ execLog[1].at = 0 /\ execLog[2].id = 2

IsPrefixOf429(results) == \A k \in 1..Len(results) : results[k] = "r429"

\* C3: a 429 leaves the caller's promise pending and the request back in the queue with
\* attempt = number of 429 answers; the promise resolves with the value of the first
\* successful run, which is the last run; another failure rejects it and is the last run;
\* a promise settles at most once.
C3_RetryOn429Only ==
  \A id \in 1..Len(requests) :
    LET r == requests[id]
        n == Len(r.results)
    IN /\ r.settles <= 1
       /\ r.promise = "pending" =>
            /\ r.settles = 0
            /\ IsPrefixOf429(r.results)
            /\ (id \in QueuedIds) # (id \in StartedIds)
            /\ \A i \in 1..Len(endpoint.queue) :
                 endpoint.queue[i].id = id => endpoint.queue[i].attempt = n
       /\ r.promise = "resolved" =>
            /\ r.settles = 1 /\ n >= 1 /\ r.results[n] = "ok" /\ r.value = n
            /\ IsPrefixOf429(SubSeq(r.results, 1, n - 1))
            /\ id \notin QueuedIds /\ id \notin StartedIds
       /\ r.promise = "rejected" =>
            /\ r.settles = 1 /\ n >= 1 /\ r.results[n] = "err"
            /\ IsPrefixOf429(SubSeq(r.results, 1, n - 1))
            /\ id \notin QueuedIds /\ id \notin StartedIds

\* a request answered 429 once, run again and resolved with the second run's value
C3_Witness ==
  \E id \in 1..Len(requests) :
    requests[id].results = <<"r429", "ok">> /\ requests[id].promise = "resolved"
      /\ requests[id].value = 2

\* C4: the backoff after the k-th 429 is min(60000, 1000 * 2^(k-1) + jitter): at least
\* min(60000, 1000 * 2^(k-1)), at most 60000, and 1000 for k = 1 with jitter 0.
C4_BackoffBounds ==
  bk.done =>
    /\ bk.backoff >= Min(60000, 1000 * Pow2(bk.attempt - 1))
    /\ bk.backoff <= 60000
    /\ bk.backoff <= 1000 * Pow2(bk.attempt - 1) + bk.jitter
    /\ (bk.attempt = 1 /\ bk.jitter = 0) => bk.backoff = 1000
    /\ (bk.attempt <= 6 => bk.backoff = 1000 * Pow2(bk.attempt - 1) + bk.jitter)

\* the cap is in force: attempt 7 would wait 64000 ms and more
C4_Witness == bk.done /\ bk.attempt = 7 /\ bk.jitter = 999 /\ bk.backoff = 60000

\* C5: the item whose task starts has the smallest priority value of the queue, and the
\* earliest insertion among the items of its priority.
C5_PriorityThenInsertion ==
  [][\A item \in inflight' \ inflight :
       \A i \in 1..Len(endpoint'.queue) :
         LET other == endpoint'.queue[i]
         IN /\ item.priority <= other.priority
            /\ item.priority = other.priority => item.seq < other.seq]_vars

\* a request inserted later runs while an earlier one of larger priority value waits
C5_Witness ==
  \E item \in inflight : \E i \in 1..Len(endpoint.queue) :
    endpoint.queue[i].seq < item.seq /\ item.priority < endpoint.queue[i].priority
---------------------------------------------------------------------------
\* Properties of Part III

Rows == 1..Len(alertQueue)
Handling(id, places) == cur.id = id /\ pc \in places

C8_AttemptsMonotoneProcessedFinal ==
  /\ [][\A id \in Rows :
          /\ alertQueue'[id].attemptCount >= alertQueue[id].attemptCount
          /\ alertQueue[id].processedAt # Null =>
               /\ alertQueue'[id].processedAt # Null
               /\ alertQueue'[id].attemptCount = alertQueue[id].attemptCount
               /\ sink'[id] = sink[id]
          /\ sink'[id].sends # sink[id].sends =>
               /\ sink'[id].sends = sink[id].sends + 1
               /\ alertQueue[id].attemptCount = cur.attemptCount + 1]_vars
  /\ [](\A id \in Rows :
          (sink[id].sends > 0 \/ Handling(id, {"send"})) =>
            alertQueue[id].attemptCount
              = sink[id].sends + (IF Handling(id, {"send"}) THEN 1 ELSE 0))

\* a processed entry is left out by a later pass that dispatches another entry
C8_Witness ==
  \E id \in Rows :
    /\ alertQueue[id].processedAt # Null /\ sink[id].sends = MaxAttempts
    /\ id \notin pass.unprocessed
    /\ pass.sent # <<>>

DrainsBefore(a, b) ==
  \/ alertQueue[a].timestamp < alertQueue[b].timestamp
  \/ alertQueue[a].timestamp = alertQueue[b].timestamp /\ a < b

\* C10: within a pass the sink is invoked in (timestamp, id) order, and only for entries
\* that have fewer than batchSize unprocessed entries before them at the fetch.
C10_DrainOrder ==
  /\ \A i, j \in 1..Len(pass.sent) :
       i < j => DrainsBefore(pass.sent[i], pass.sent[j])
  /\ \A k \in 1..Len(pass.sent) :
       Cardinality({u \in pass.unprocessed : DrainsBefore(u, pass.sent[k])}) < BatchSize

\* two sends in one pass, the later row first because its timestamp is smaller, while
\* an unprocessed entry stayed outside the batch
C10_Witness ==
  /\ Len(pass.sent) = 2
  /\ pass.sent[1] > pass.sent[2]
  /\ Cardinality(pass.unprocessed) > BatchSize

---------------------------------------------------------------------------
\* Properties of Part V

StrictlyIncreasing(seq) == \A i, j \in 1..Len(seq) : i < j => seq[i] < seq[j]

\* C11: the cursor persisted for an aggregator never decreases from one write to the
\* next, and it is at or above every rowId of every batch the worker has completed
\* for that aggregator (fed, flushed and the cursor saved)
C11_CursorMonotoneCoversDone ==
  /\ [](\A id \in AggregatorIds : \A r \in cwDone[id] : processingState[id] >= r)
  /\ [][\A id \in AggregatorIds : processingState'[id] >= processingState[id]]_vars

\* the cursor of an aggregator was written twice, the second time further on
C11_Witness ==
  \E id \in AggregatorIds :
    /\ Len(fed[id]) >= 2
    /\ Cardinality(cwDone[id]) >= 2
    /\ processingState[id] = fed[id][Len(fed[id])]
    /\ processingState[id] > fed[id][1]
    /\ cw.pc = "idle"

\* C12: the rowIds fed into each aggregator are strictly increasing over the whole
\* run, also after a batch whose flush or cursor save failed
C12_FedStrictlyIncreasing ==
  \A id \in AggregatorIds : StrictlyIncreasing(fed[id])

\* as long as no call of the worker has thrown the rowIds fed are strictly increasing
FedIncreasingWithoutFailure ==
  cw.failures = 0 => \A id \in AggregatorIds : StrictlyIncreasing(fed[id])


---------------------------------------------------------------------------
\* Properties of Part IV

\* the rows of a log whose key did not occur earlier in it, in order
RECURSIVE FirstInserts(_, _, _)
FirstInserts(log, seen, isTrade) ==
  IF log = <<>> THEN <<>>
  ELSE LET key == IF isTrade THEN TradeKey(Head(log)) ELSE EventKey(Head(log))
       IN IF key \in seen THEN FirstInserts(Tail(log), seen, isTrade)
          ELSE <<Head(log)>> \o FirstInserts(Tail(log), seen \cup {key}, isTrade)

\* a trade is of one of the streams asked for; symbols compare without regard to case
MatchesFilters(trade, filters) ==
  \E f \in filters : /\ ToUpperCase(trade.symbol) = ToUpperCase(f.symbol)
                     /\ trade.marketType = f.marketType
                     /\ trade.streamType = f.streamType

\* the trades a reader with these filters is owed, in insertion order
Owed(filters) ==
  SelectSeq(FirstInserts(dbLog.trade, {}, TRUE), LAMBDA t : MatchesFilters(t, filters))

\* rows as the reader gets them, without the rowId
AsTrades(rows) ==
  [k \in 1..Len(rows) |->
     [symbol |-> rows[k].symbol, marketType |-> rows[k].marketType,
      tradeId |-> rows[k].tradeId, streamType |-> rows[k].streamType,
      price |-> rows[k].price]]

IsPrefix(a, b) == Len(a) <= Len(b) /\ SubSeq(b, 1, Len(a)) = a

\* C13: getTradeDataSinceRowId(filters, 0, no limit) returns every inserted trade that
\* matches the filters exactly once and in insertion order; paging with a finite limit
\* from the last rowId returned yields a prefix of that sequence at every moment and
\* the whole of it when a page comes back empty
C13_EnumeratesOnceInOrder ==
  /\ [](/\ \A filters \in FilterSamples :
             AsTrades(GetTradeDataSinceRowId(tradeData, filters, 0, NoLimit)) = Owed(filters)
        /\ IsPrefix(AsTrades(pager.rows), Owed(pager.filters)))
  /\ [][(pager' # pager /\ pager'.last = "end")
          => AsTrades(pager'.rows) = Owed(pager.filters)]_vars

\* a reader with limit 1 has paged to the end over a table that holds a trade of
\* another stream and has seen a duplicate insert
C13_Witness ==
  /\ pager.last = "end"
  /\ pager.limit = 1
  /\ Len(pager.rows) >= 2
  /\ Cardinality(tradeData) > Len(pager.rows)
  /\ Len(dbLog.trade) > Cardinality(tradeData)

\* the table holds one row for each key of the log, with the values of the first
\* row of the log that has the key
HoldsFirstInserts(rows, log, isTrade) ==
  LET firsts == FirstInserts(log, {}, isTrade)
  IN /\ Cardinality(rows) = Len(firsts)
     /\ \A k \in 1..Len(firsts) : firsts[k] \in rows

\* the rows of trade_data without their rowid
TradeRows ==
  {[symbol |-> r.symbol, marketType |-> r.marketType, tradeId |-> r.tradeId,
    streamType |-> r.streamType, price |-> r.price] : r \in tradeData}

HasDuplicate(log, isTrade) == Len(FirstInserts(log, {}, isTrade)) < Len(log)

\* C14: after any sequence of saveTradeData, saveAggTrades and saveLiquidationEvents
\* calls each key has exactly one row, and the row carries the values of the first
\* insert with that key
C14_FirstInsertWins ==
  /\ HoldsFirstInserts(TradeRows, dbLog.trade, TRUE)
  /\ Cardinality(TradeRows) = Cardinality(tradeData)
  /\ HoldsFirstInserts(aggTrades, dbLog.agg, TRUE)
  /\ HoldsFirstInserts(liquidationEvents, dbLog.liq, FALSE)

\* a liquidation was inserted again with another price, and a trade or an aggregated
\* trade was inserted again as well
C14_Witness ==
  /\ \E i, j \in 1..Len(dbLog.liq) :
       /\ i < j
       /\ dbLog.liq[i].eventId = dbLog.liq[j].eventId
       /\ dbLog.liq[i].price # dbLog.liq[j].price
  /\ HasDuplicate(dbLog.trade, TRUE) \/ HasDuplicate(dbLog.agg, TRUE)

\* the (symbol, marketType) pairs a checkpoint is asked for
CheckpointPairs == {<<t.symbol, t.marketType>> : t \in AggTradeSamples}

\* the checkpoint owed for a pair: the largest tradeId saved for it and the tradeTime
\* saved first with that tradeId
OwedCheckpoint(symbol, marketType) ==
  LET idx == {i \in 1..Len(dbLog.agg) :
                dbLog.agg[i].symbol = symbol /\ dbLog.agg[i].marketType = marketType}
  IN IF idx = {} THEN Undefined
     ELSE LET top == CHOOSE i \in idx :
                       /\ \A j \in idx : dbLog.agg[j].tradeId <= dbLog.agg[i].tradeId
                       /\ \A j \in idx : dbLog.agg[j].tradeId = dbLog.agg[i].tradeId => i <= j
          IN [tradeId |-> dbLog.agg[top].tradeId, tradeTime |-> dbLog.agg[top].tradeTime]

---------------------------------------------------------------------------
\* Properties of Part VI

MigrationIds == [i \in 1..Len(MIGRATIONS) |-> MIGRATIONS[i].id]

\* every table of every migration, and the columns of cvd_data
FullSchema ==
  UNION {MIGRATIONS[i].tables : i \in 1..Len(MIGRATIONS)} \cup CvdDeltaColumns

\* C16: once a run of runMigrations has committed, the schema and schema_migrations
\* are the same after every later run: every migration id is recorded exactly once in
\* ascending order, and a run executes the statements only of ids that were not
\* recorded when it began
C16_MigrationsIdempotent ==
  /\ [](/\ StrictlyIncreasing(schemaMigrations)
        /\ (mg.commits >= 1 /\ mg.pc = "idle")
             => (schema = FullSchema /\ schemaMigrations = MigrationIds))
  /\ [][mg'.ran # mg.ran =>
          \A k \in 1..Len(mg'.ran) :
             mg'.ran[k] \notin GetAppliedMigrations(mg'.saved.schemaMigrations)]_vars

\* two runs have committed and one was rolled back; the last run found every
\* migration recorded and applied none
C16_Witness ==
  /\ mg.commits = 2
  /\ mg.runs = 3
  /\ mg.pc = "idle"
  /\ mg.ran = <<>>
  /\ schemaMigrations = MigrationIds


---------------------------------------------------------------------------
\* Claims about SymbolManager

KeysOf(table) == {SymbolKey(r) : r \in table}

\* the rows of the exchangeInfo answers that make the merged catalog
CatalogRows(info) == {e \in info : e.market = "SPOT" => IsSpotEligible(e)}

\* the symbols table agrees with the catalog of the update that has just completed
AgreesWithCatalog ==
  /\ \A r \in symbols :
       SymbolKey(r) \notin KeysOf(sm.merged) => r.status = "INACTIVE"
  /\ \A e \in CatalogRows(sm.info) :
       /\ Cardinality({r \in symbols : SymbolKey(r) = <<e.symbol, e.market>>}) = 1
       /\ \A r \in symbols :
            SymbolKey(r) = <<e.symbol, e.market>>
              => (r.status = "ACTIVE" <=> e.status = "TRADING")

\* C17: when updateSymbols has completed, every stored symbol that is absent from
\* the merged catalog is INACTIVE and every catalog symbol is stored, ACTIVE exactly
\* when its exchange status is TRADING; no step removes a row of symbols.
C17_SymbolsFollowCatalog ==
  /\ [](sm.pc = "updated" => AgreesWithCatalog)
  /\ [][KeysOf(symbols) \subseteq KeysOf(symbols')]_vars

\* a second update has completed; it left a row that its catalog does not hold, it
\* stored a catalog symbol that is not TRADING, and it stored one that is
C17_Witness ==
  /\ sm.pc = "updated"
  /\ sm.updates >= 2
  /\ \E r \in symbols : SymbolKey(r) \notin KeysOf(sm.merged)
  /\ \E e \in CatalogRows(sm.info) : e.status # "TRADING"
  /\ \E e \in CatalogRows(sm.info) : e.status = "TRADING"

\* C18: after a scheduled update has failed and its callbacks have run, a timeout
\* is pending that is due 6 hours after the failure.
C18_RetrySixHoursAfterFailure ==
  (sm.pc = "idle" /\ sm.outcome = "failed")
    => \E t \in sm.timers : t.due = sm.settledAt + SIX_HOURS_MS

\* at most one timeout of the manager is pending
AtMostOneUpdateTimer == Cardinality(sm.timers) <= 1

\* between two updates the pending timeout is the one of scheduleDailyUpdate, due
\* at the first configured hour after the update settled
NextRunAtConfiguredHour ==
  sm.pc = "idle"
    => \A t \in sm.timers :
         /\ t.kind = "update"
         /\ t.due > sm.settledAt
         /\ t.due - sm.settledAt <= DayMs
         /\ \/ t.due % DayMs = sm.hour * HourMs
            \/ t.due = sm.settledAt + MinUpdateDelayMs

---------------------------------------------------------------------------
\* Claims about TradeDataCollector

IsPersisted(trade) == \E r \in tradeData : TradeKey(r) = TradeKey(trade)

InSeq(trade, seq) == \E i \in 1..Len(seq) : seq[i] = trade

IsInFlight(trade) == \E f \in 1..Len(tc.flights) : InSeq(trade, tc.flights[f])

\* in how many of the three places (trade_data, the buffer, a flush in flight) the
\* trade is
Places(trade) ==
  (IF IsPersisted(trade) THEN 1 ELSE 0)
  + (IF InSeq(trade, tc.tradeBuffer) THEN 1 ELSE 0)
  + (IF IsInFlight(trade) THEN 1 ELSE 0)

NoEventDropped == \A n \in 1..tc.arrived : Places(ArrivedTrade(n)) = 1

\* a flush that ends either has persisted its batch or has emitted error and put
\* the batch back at the front of the buffer, with nothing persisted
FailedFlushPutsBack ==
  Len(tc.flights') < Len(tc.flights)
    => \/ /\ tc.errors' = tc.errors
          /\ \A i \in 1..Len(Head(tc.flights)) :
               \E r \in tradeData' : TradeKey(r) = TradeKey(Head(tc.flights)[i])
       \/ /\ tc.errors' = tc.errors + 1
          /\ tc.tradeBuffer' = Head(tc.flights) \o tc.tradeBuffer
          /\ tradeData' = tradeData

\* a flush that begins takes the whole buffer
FlushTakesBuffer ==
  Len(tc.flights') > Len(tc.flights)
    => /\ tc.tradeBuffer' = <<>>
       /\ IsPrefix(tc.tradeBuffer, tc.flights'[Len(tc.flights')])

EarlierArrivalsFirst(r) ==
  \A n \in 1..(r.tradeId - 1) :
    \E q \in tradeData : q.tradeId = n /\ q.rowid < r.rowid

\* C20: a trade is never persisted before a trade that arrived earlier.
C20_PersistedInArrivalOrder == \A r \in tradeData : EarlierArrivalsFirst(r)

\* as long as no saveTradeData has rejected, trades are persisted in arrival order
ArrivalOrderWithoutFailure ==
  tc.errors = 0 => \A r \in tradeData : EarlierArrivalsFirst(r)

\* C21: the buffer never holds more than maxBufferSize trades.
C21_BufferBounded == Len(tc.tradeBuffer) <= MaxBufferSize

\* an arriving trade that fills the buffer starts a flush in the same handler, so
\* between handlers the buffer is below maxBufferSize until a flush has failed
BufferBoundedWithoutFailure == tc.errors = 0 => Len(tc.tradeBuffer) < MaxBufferSize

\* C22: when stopCollection has resolved, the buffer is empty, no flush is in
\* flight and every trade received has been persisted.
C22_StopDrains ==
  tc.stopResolved
    => /\ tc.tradeBuffer = <<>>
       /\ tc.flights = <<>>
       /\ \A n \in 1..tc.arrived : IsPersisted(ArrivedTrade(n))

\* when no saveTradeData has rejected and stopCollection found trades to flush, it
\* resolves with everything persisted
StopDrainsAfterFinalFlush ==
  (tc.stopResolved /\ tc.errors = 0 /\ tc.saved > 0 /\ tc.flights = <<>>)
    => /\ tc.tradeBuffer = <<>>
       /\ \A n \in 1..tc.arrived : IsPersisted(ArrivedTrade(n))

---------------------------------------------------------------------------
\* Claims about BinanceTradeWebSocketClient

\* a socket whose listeners are attached reports a close with a code other than 1000
AbnormalCloseHandled == wc'.abnormalCloses = wc.abnormalCloses + 1

\* the promise of a connectMarket made by the reconnect callback is rejected
ReconnectFails == wc'.failedReconnects = wc.failedReconnects + 1

\* a handler that ran while the client was not disconnected leaves exactly one
\* reconnect timeout pending when it handled an abnormal close or a failed reconnect
SchedulesOneReconnect ==
  ((AbnormalCloseHandled \/ ReconnectFails) /\ ~ wc'.disconnected)
    => wc'.reconnectPending = 1 /\ wc'.reconnectTimer

\* after disconnect() no timeout or interval of the connection is pending
NoTimerAfterDisconnect ==
  wc.disconnected
    => /\ wc.reconnectPending = 0
       /\ wc.heartbeatPending = 0
       /\ ~ wc.reconnectTimer
       /\ ~ wc.heartbeatTimer

\* after disconnect() no socket is created and none that is connecting has listeners
NoAttemptAfterDisconnect ==
  wc.disconnected
    => /\ wc'.attempts = wc.attempts
       /\ Len(socks') = Len(socks)
       /\ wc'.scheduled = wc.scheduled

\* C23: a close with a code other than 1000 and a failed reconnect each leave
\* exactly one reconnect timeout pending; at no time is more than one pending;
\* after disconnect() no reconnect or heartbeat timer is pending, none is set and
\* no socket is created, in whatever phase the connection was.
C23_ReconnectUntilDisconnect ==
  /\ [](wc.reconnectPending <= 1 /\ wc.heartbeatPending <= 1)
  /\ []NoTimerAfterDisconnect
  /\ [][SchedulesOneReconnect /\ NoAttemptAfterDisconnect]_vars

\* disconnect() was called while a reconnect was waiting, after a reconnect had
\* failed, and the sockets went on to report their events
C23_Witness ==
  /\ wc.disconnected
  /\ wc.phaseAtDisconnect = "waiting"
  /\ wc.failedReconnects >= 1
  /\ wc.abnormalCloses >= 1

\* disconnect() was called while a socket made by the reconnect callback was
\* connecting
DisconnectWhileConnecting ==
  /\ wc.disconnected
  /\ wc.phaseAtDisconnect = "connecting"
  /\ wc.attempts >= 2

\* disconnect() was called while the connection was ready after a reconnect
DisconnectWhileReady ==
  /\ wc.disconnected
  /\ wc.phaseAtDisconnect = "ready"
  /\ wc.attempts >= 2

---------------------------------------------------------------------------
\* Alert gating

\* what the query is said to answer: a pending entry of that type and symbol, or a
\* row of alert_history of that type and symbol at or after sinceTimestamp
PendingOrRecent(queue, history, alertType, symbol, sinceTimestamp) ==
  \/ \E r \in queue : r.alertType = alertType /\ r.symbol = symbol /\ ~ r.processed
  \/ \E r \in history :
       r.alertType = alertType /\ r.symbol = symbol /\ r.timestamp >= sinceTimestamp

\* C24: hasRecentAlertOrPending(type, symbol, sinceTs) returns true if and only if a
\* pending queue entry exists or alert_history has a row of that type and symbol
\* with timestamp >= sinceTs, and returns false in every other store state.
C24_TrueIffPendingOrRecent ==
  al.check.called =>
    al.check.outcome =
      IF PendingOrRecent(alertRows, alertHistory, al.check.alertType, al.check.symbol,
                         al.check.sinceTimestamp)
      THEN "true" ELSE "false"

\* every call ends in a rejection, whatever the tables hold
CheckAlwaysRejects == al.check.called => al.check.outcome = "rejected"

\* the rows alert_queue held before the latest alert decision
RowsBefore ==
  {r \in alertRows :
     r.id <= Cardinality(alertRows) - (IF al.last.stored THEN Len(al.last.handed) ELSE 0)}

\* an earlier alert of the aggregator lies within the suppression window of the
\* payload of the latest decision
EarlierAlertInWindow ==
  \E r \in RowsBefore :
    /\ r.alertType = CvdAlertType
    /\ r.symbol = al.last.payload.symbol
    /\ Abs(al.last.payload.timestamp - r.timestamp) < SuppressionWindowMs

\* C25: for one aggregator any two alerts enqueued under the same alertType have
\* timestamps at least suppressionWindowMs apart; when a second alert fires within
\* the suppression window of an earlier alert for the same aggregator, the
\* suppression veto returns true and nothing is enqueued.
C25_AlertsSpacedByWindow ==
  /\ \A r1, r2 \in alertRows :
       (r1 # r2 /\ r1.alertType = r2.alertType /\ r1.symbol = r2.symbol)
         => Abs(r1.timestamp - r2.timestamp) >= SuppressionWindowMs
  /\ (al.last.fired /\ AlertsForAggregator(al, al.last.payload.symbol)
        /\ EarlierAlertInWindow)
       => (al.last.veto = "true" /\ al.last.handed = <<>> /\ RowsBefore = alertRows)

\* the suppression handler never answers: every veto asked for is a rejection
VetoNeverAnswers == al.last.fired => al.last.veto \in {"none", "rejected"}

\* two alerts of one aggregator with the same timestamp are both in the queue
TwoAlertsAtOnce ==
  \E r1, r2 \in alertRows :
    /\ r1 # r2 /\ r1.alertType = r2.alertType /\ r1.symbol = r2.symbol
    /\ r1.timestamp = r2.timestamp

\* signedLog(v) = sign(v) * ln|v| for |v| >= 1 and 0 otherwise, compared with a
\* threshold t > 0: the logarithm of an infinite magnitude exceeds every threshold,
\* and NaN is not at least 1
SignedLogAtLeast(v, t) ==
  CASE v.kind = "Infinity" -> TRUE
    [] v.kind = "NaN" -> FALSE
    [] OTHER -> Abs(v.milli) >= One /\ MathLog(Abs(v.milli)) >= t

\* the latest decision handed its payload to the worker
HandedToWorker == al.last.fired /\ al.last.sends

\* the payload of the latest decision was inserted into alert_queue
Enqueued == al.last.handed # <<>> /\ al.last.stored /\ RowsBefore # alertRows

\* the enriched payload carries the given threshold and the original z-score
Carries(enriched, t) ==
  /\ enriched.threshold = t
  /\ enriched.logThreshold = t
  /\ enriched.rawThreshold = MathExp(t)
  /\ enriched.rawTriggerZScore = al.last.payload.triggerZScore

DroppedBelowFloor ==
  /\ HandedToWorker /\ al.last.handed = <<>>
  /\ AlertsForAggregator(al, al.last.payload.symbol)
  /\ SignedLogAtLeast(al.last.payload.triggerZScore, al.threshold)
  /\ al.last.payload.triggerZScore.kind = "finite"

\* an infinite z-score is dropped
InfiniteDropped ==
  /\ HandedToWorker /\ al.last.handed = <<>>
  /\ AlertsForAggregator(al, al.last.payload.symbol)
  /\ al.last.payload.triggerZScore.kind = "Infinity"

---------------------------------------------------------------------------
\* Backup retention and scheduling

\* the backups among the names of a directory
Backups(files) == {f \in files : f.format = "basic"}

\* the directory is as the latest retention pass left it
AfterRetentionPass ==
  bs.pass.done /\ \E r \in 1..Len(bs.step) : bs.step[r] = "pruneHistoricalData"

\* C27: after a retention pass every backup newer than now - dailyDays*24h is kept;
\* in the window between now - weeklyWeeks*7d and now - dailyDays*24h exactly one
\* backup per ISO week, the newest of that week, is kept; and no backup older than
\* now - weeklyWeeks*7d remains.
C27_RetentionBuckets ==
  AfterRetentionPass =>
    LET daily == bs.pass.at - bs.retention.dailyDays * DayMs
        weekly == bs.pass.at - bs.retention.weeklyWeeks * DaysPerWeek * DayMs
        before == Backups(bs.pass.before)
        after == Backups(backupFiles)
        window == {f \in before : weekly <= f.ms /\ f.ms < daily}
    IN /\ \A f \in before : f.ms >= daily => f \in after
       /\ \A f \in window :
            f \in after
              <=> \A g \in window :
                    GetIsoWeekKey(g.ms) = GetIsoWeekKey(f.ms) => g.ms <= f.ms
       /\ \A f \in after : f.ms >= weekly

\* a retention pass removes nothing
RetentionDeletesNothing == AfterRetentionPass => backupFiles = bs.pass.before

\* a backup older than the weekly window is in the directory after a pass
ExpiredBackupRemains ==
  /\ AfterRetentionPass
  /\ \E f \in Backups(backupFiles) :
       f.ms < bs.pass.at - bs.retention.weeklyWeeks * DaysPerWeek * DayMs

\* a call of start() that finds no timeout sets one that is due at once
StartRunsAtOnce ==
  bs'.starts = bs.starts + 1
    => \E t \in bs'.pending : t.id = bs'.timer /\ t.due = bs.now

\* a timeout that fires during a run starts no run and sets the next timeout
SkippedRunRescheduled ==
  (bs'.fires = bs.fires + 1 /\ bs.step # <<>>)
    => /\ bs'.step = bs.step
       /\ \E t \in bs'.pending \ bs.pending : t.due = bs.now + BackupIntervalMs

\* a run that ends, at whichever step, sets the next timeout intervalMs later
EndedRunRescheduled ==
  Len(bs'.step) < Len(bs.step)
    => /\ ~ bs'.running
       /\ \E t \in bs'.pending \ bs.pending :
            t.id = bs'.timer /\ t.due = bs.now + BackupIntervalMs

\* at most one run is in progress
NeverOverlap == Len(bs.step) <= 1

\* C28: the backup scheduler runs once immediately after start() and then
\* repeatedly: two backup runs never overlap (a run that would begin while the
\* previous one is in flight is skipped and rescheduled), and after every run,
\* whether it succeeded or failed at any step, the next run is scheduled intervalMs
\* later.
C28_RunsNeverOverlap ==
  /\ []NeverOverlap
  /\ [][StartRunsAtOnce /\ SkippedRunRescheduled /\ EndedRunRescheduled]_vars

\* a run was skipped and the run it met has ended: both left a timeout
C28_Witness ==
  /\ bs.fires >= 2 /\ bs.step = <<>> /\ ~ bs.running
  /\ Cardinality(bs.pending) = 2

\* the first timeout fired at the time of start() and its run is in progress
FirstRunAtStart ==
  bs.fires = 1 /\ bs.starts = 1 /\ bs.now = BsStartMs /\ Len(bs.step) = 1

---------------------------------------------------------------------------
\* The transaction chain

BlockIds == 1..Len(tx.blocks)

\* the block's fn has been called and its transaction is not yet closed
InTransaction(id) == tx.pc[id] \in {"fn", "commit", "rollback"}

\* a block starts only when every block submitted before it has settled
SubmissionOrder ==
  \A i, j \in BlockIds : (i < j /\ tx.pc[j] # "queued") => tx.pc[i] = "settled"

\* a block runs inside the transaction its own BEGIN IMMEDIATE opened, and every
\* statement it issued arrived in that transaction
OwnTransaction ==
  /\ \A id \in BlockIds : InTransaction(id) => tx.owner = Block(id)
  /\ \A s \in txLog :
       (s.by.kind = "block" /\ s.op # "BEGIN IMMEDIATE") => s.owner = s.by

\* a block whose fn threw was rolled back: none of its writes is in the store
ThrownRolledBack ==
  \A id \in BlockIds :
    (tx.pc[id] = "settled" /\ tx.blocks[id] = "throws" /\ id \notin tx.refused)
      => /\ Block(id) \notin tx.durable \cup tx.uncommitted
         /\ \E s \in txLog : s.op = "ROLLBACK" /\ s.by = Block(id)

\* a caller is rejected only for its own block: its fn threw or its BEGIN was refused
OwnErrorOnly ==
  \A id \in BlockIds :
    /\ tx.outcome[id] = "rejected" <=>
         (tx.pc[id] = "settled" /\ (tx.blocks[id] = "throws" \/ id \in tx.refused))
    /\ tx.outcome[id] = "resolved" <=>
         (tx.pc[id] = "settled" /\ tx.blocks[id] = "resolves" /\ id \notin tx.refused)

\* every block that joined the chain settles, whatever became of the blocks before it
ChainProceeds ==
  \A id \in 1..MaxTxBlocks :
    (id <= Len(tx.blocks) /\ tx.pc[id] = "queued")
      ~> (id <= Len(tx.blocks) /\ tx.pc[id] = "settled")

\* C29: all withTransaction blocks execute serially in submission order, each
\* between its own BEGIN IMMEDIATE and COMMIT or ROLLBACK: no block starts before
\* the previous one has committed or rolled back, a block that throws is rolled
\* back and its error reaches only its own caller, and blocks queued after a failed
\* block still execute.
C29_BlocksSerial ==
  /\ [](SubmissionOrder /\ OwnTransaction /\ ThrownRolledBack /\ OwnErrorOnly)
  /\ ChainProceeds

\* a block that threw was rolled back and the block queued behind it committed
C29_Witness ==
  \E i, j \in BlockIds :
    /\ i < j
    /\ tx.blocks[i] = "throws" /\ tx.outcome[i] = "rejected" /\ i \notin tx.refused
    /\ tx.outcome[j] = "resolved" /\ Block(j) \in tx.durable

\* no write of another operation arrived inside a block's transaction
NoForeignWriteInBlock ==
  \A s \in txLog : (s.op = "WRITE" /\ s.owner.kind = "block") => s.by = s.owner

\* no BEGIN was issued while a transaction was open
NoBeginInTransaction ==
  \A s \in txLog : s.op \in {"BEGIN", "BEGIN IMMEDIATE"} => s.owner = NoOwner

\* C30: every write to the primary store goes through the serialized chain: no
\* write statement of another operation (cursor save, CVD record save, alert queue
\* update, migration run) executes on the connection between the BEGIN IMMEDIATE
\* and the COMMIT/ROLLBACK of a withTransaction block, and no BEGIN is issued while
\* a transaction is open on that connection.
C30_WritesThroughChain == NoForeignWriteInBlock /\ NoBeginInTransaction

\* a write issued with this.run, whose promise resolved, was undone by the
\* ROLLBACK of a block
DirectWriteRolledBack ==
  \E n \in 1..tx.writes :
    /\ \E s \in txLog : s.op = "WRITE" /\ s.by = Direct(n) /\ s.owner.kind = "block"
    /\ Direct(n) \notin tx.durable \cup tx.uncommitted

\* a block's BEGIN IMMEDIATE was refused inside the transaction of runMigrations
BlockRefusedByMigration ==
  \E s \in txLog : s.op = "BEGIN IMMEDIATE" /\ s.owner = Migration /\ ~ s.ok

\* among the statements of the chain alone, no BEGIN IMMEDIATE found a block's
\* transaction open
ChainBeginsOutsideBlocks ==
  \A s \in txLog : s.op = "BEGIN IMMEDIATE" => s.owner.kind # "block"

---------------------------------------------------------------------------
\* The backup scheduler under start() and stop()

\* at most one timeout of the scheduler is pending
AtMostOneBackupTimer == Cardinality(bs.pending) <= 1

\* no run begins while stop() is the latest of the start() and stop() calls
NoRunWhileStopped == Len(bs'.step) > Len(bs.step) => ~ bs.halted

\* C37: for any sequence of start() and stop() calls on the backup scheduler,
\* including calls made while a backup run is in flight, at most one next-run timer
\* is pending at any time, and after stop() no further backup run begins until
\* start() is called again.
C37_OneTimerNoRunAfterStop ==
  /\ []AtMostOneBackupTimer
  /\ [][NoRunWhileStopped]_vars

\* stop() was the latest call and a run is in progress that began after it
RunBeganAfterStop ==
  /\ bs.halted /\ bs.step # <<>>
  /\ \E r \in 1..Len(bs.step) : bs.step[r] = "performBackup"
  /\ bs.fires >= 2

\* while no run is in progress and none has been, start() and stop() alone keep
\* at most one timeout pending
OneTimerBeforeFirstRun == bs.fires = 0 => Cardinality(bs.pending) <= 1

---------------------------------------------------------------------------
\* The per-asset stores after a failed bulk insert

AdCalls == 1..Len(ad.calls)
AdSettled(k) == ad.calls[k].state # "pending"

\* a call rejects only when the insert it made itself failed
OnlyTheFailedCallRejects ==
  \A k \in AdCalls : ad.calls[k].state = "rejected" => ad.calls[k].failed

\* a settled call did its work on the store: the insert of a save with trades
\* ran, and the query of a checkpoint read ran
LaterCallsExecute ==
  \A k \in AdCalls :
    AdSettled(k) /\ (ad.calls[k].op = "checkpoint" \/ ad.calls[k].trades # <<>>)
      => ad.calls[k].ran

\* the inserts of one asset ran in the order of their calls
InsertsInCallOrder ==
  \A i, j \in 1..Len(ad.inserted) :
    i < j /\ ad.calls[ad.inserted[i]].asset = ad.calls[ad.inserted[j]].asset
      => ad.inserted[i] < ad.inserted[j]

\* when close() has settled no store is open
CloseClosesEveryStore ==
  ad.close \in {"resolved", "rejected"} => \A a \in AdAssets : stores[a].open # "open"

\* C36: a failed bulk insert into a per-asset historical store affects only that
\* call: later saveAggTrades and getLastAggTradeCheckpoint calls for the same asset
\* still execute against the store, inserts for one asset run one at a time in call
\* order, and close() still closes every open store.
C36_FailedInsertIsolated ==
  /\ OnlyTheFailedCallRejects
  /\ LaterCallsExecute
  /\ InsertsInCallOrder
  /\ CloseClosesEveryStore

\* a save made after a failed insert for the same asset has rejected without
\* its insert being run
SaveSkippedAfterFailure ==
  \E k \in AdCalls :
    /\ ad.calls[k].op = "save" /\ ad.calls[k].state = "rejected"
    /\ ~ ad.calls[k].ran /\ ~ ad.calls[k].failed

\* a checkpoint read made after a failed insert has thrown
CheckpointThrowsAfterFailure ==
  \E k \in AdCalls : ad.calls[k].op = "checkpoint" /\ ad.calls[k].state = "rejected"

\* close() has rejected and a store is left open
CloseLeavesStoreOpen ==
  ad.close = "rejected" /\ \E a \in AdAssets : stores[a].open = "open"

\* a call rejects only when an insert for its asset has failed, its own or an
\* earlier one, and the stores of the other assets are not touched by it
RejectionFollowsFailureOfAsset ==
  \A k \in AdCalls :
    ad.calls[k].state = "rejected" =>
      \E j \in 1..k : ad.calls[j].failed /\ ad.calls[j].asset = ad.calls[k].asset

---------------------------------------------------------------------------
\* The page loop of the historical collector

AgTarget == AgTargets[ag.i]
InPageLoop == ag.pc \in {"loop", "attempt", "retryDelay", "save", "cooldown"}

\* no more than MAX_REST_ITERATIONS page requests for one target in one cycle
PagesWithinLimit ==
  Len(ag.asked) <= MAX_REST_ITERATIONS /\ ag.iterations = Len(ag.asked)

\* the loop ends after the last allowed page, after an empty or short page,
\* after an error, and when the collector has been stopped
LoopEnd ==
  /\ ag'.pc # ag.pc =>
       /\ ag.pc = "loop" /\ (ag.iterations = MAX_REST_ITERATIONS \/ ~ ag.isRunning)
            => ag'.pc = "target" /\ ag'.i = ag.i + 1 /\ ag'.asked = ag.asked
       /\ ag.pc = "attempt" /\ ag'.fetchFailures = ag.fetchFailures
            /\ FetchAggTrades(ag.world, ag.i, ag.cursor, RestLimit, ag.now) = <<>>
            => ag'.pc = "target" /\ ag'.i = ag.i + 1
       /\ ag.pc = "save" /\ Len(ag.page) < RestLimit
            => ag'.pc = "target" /\ ag'.i = ag.i + 1
  /\ ag'.errors > ag.errors => ag'.pc = "target" /\ ag'.i = ag.i + 1
  /\ Len(ag'.asked) > Len(ag.asked) => ag.isRunning

\* the start times asked of the exchange for one target increase strictly
CursorIncreases ==
  \A j \in 1..(Len(ag.asked) - 1) : ag.asked[j] < ag.asked[j + 1]

\* from the second page on the cursor is the tradeTime + 1 of the target's
\* newest trade in the store
CursorFollowsStore ==
  InPageLoop /\ ag.cursor # ag.startCursor =>
    /\ stores[AgTarget.asset].open = "open"
    /\ ag.cursor = LastAggTrade(stores[AgTarget.asset].rows, AgTarget.symbol,
                                AgTarget.marketType).tradeTime + 1

\* C31: for each target in a historical cycle the page loop issues at most
\* MAX_REST_ITERATIONS = 50 page requests and then ends; it ends earlier on an
\* empty page, on a page with fewer than restLimit trades, on an error, or when
\* the collector is stopped; and the cursor passed as startTime strictly increases
\* from page to page, always being the last stored trade's tradeTime + 1.
C31_PageLoopBounded ==
  /\ [](PagesWithinLimit /\ CursorIncreases /\ CursorFollowsStore)
  /\ [][LoopEnd]_vars

\* a loop has ended because its fiftieth page was full
C31_Witness ==
  /\ ag.ended.reason = "limit" /\ ag.ended.target = 1
  /\ Len(ag.asked) = MAX_REST_ITERATIONS
  /\ Cardinality(stores["BTC"].rows) = MAX_REST_ITERATIONS * RestLimit

\* loops have ended on an empty page, on a short page, on an error and on stop()
LoopEndedEmpty == ag.ended.reason = "empty"
LoopEndedShort == ag.ended.reason = "short"
LoopEndedOnError == ag.ended.reason = "error"
LoopEndedStopped == ag.ended.reason = "stopped" /\ ag.asked # <<>>

---------------------------------------------------------------------------
\* Errors in the page loop

\* a page request is attempted at most maxRetries times
AttemptsWithinRetries == ag.attempt <= AgMaxRetries

\* a further attempt follows the retry delay
RetryAfterDelay ==
  ag.pc = "retryDelay" /\ ag'.pc = "attempt" => ag'.now = ag.now + DEFAULT_RETRY_DELAY_MS

AgRows(n) ==
  {r \in stores[AgTargets[n].asset].rows :
     r.symbol = AgTargets[n].symbol /\ r.marketType = AgTargets[n].marketType}

\* a failure emits an error event, ends the target's loop and stores nothing
ErrorAbandonsLoop ==
  /\ ag.pc = "attempt" /\ ag'.fetchFailures > ag.fetchFailures /\ ag'.pc # "retryDelay"
       => ag'.errors = ag.errors + 1 /\ ag'.pc = "target" /\ ag'.i = ag.i + 1
  /\ ag'.saveFailures > ag.saveFailures
       => /\ ag'.errors = ag.errors + 1 /\ ag'.pc = "target" /\ ag'.i = ag.i + 1
          /\ stores'[AgTarget.asset].rows = stores[AgTarget.asset].rows

\* a cycle that comes to its end while the collector runs has taken up every target
AllTargetsTakenUp ==
  ag.pc \in {"done", "thrown"} /\ ag.isRunning => ag.begun = 1..Len(AgTargets)

\* C32: each page request of the historical collector is attempted at most
\* maxRetries times with retryDelayMs between attempts; if all attempts fail, or the
\* store insert fails, an error event is emitted, that target's loop is abandoned
\* for this cycle without advancing its stored checkpoint, and the remaining targets
\* of the cycle are still processed.
C32_ErrorsAbandonOneTarget ==
  /\ [](AttemptsWithinRetries /\ AllTargetsTakenUp)
  /\ [][RetryAfterDelay /\ ErrorAbandonsLoop]_vars

\* after a failed insert for the first BTC target the cycle has rejected at the
\* checkpoint read of the second, and the ETH target was not taken up
CycleRejectedAfterFailedInsert ==
  /\ ag.pc = "thrown" /\ ag.isRunning /\ ag.i = 2
  /\ ag.saveFailures = 1 /\ ag.begun = {1}

\* the parts of the claim about one target
OneTargetAbandoned ==
  /\ []AttemptsWithinRetries
  /\ [][RetryAfterDelay /\ ErrorAbandonsLoop]_vars

\* while no insert has failed, every target is taken up
AllTargetsTakenUpWithoutFailedInsert ==
  ag.saveFailures = 0 => AllTargetsTakenUp

\* every attempt of a request failed and the next target was taken up
FetchGivenUp ==
  ag.fetchFailures = AgMaxRetries /\ ag.errors = 1 /\ ag.begun = {1, 2}

---------------------------------------------------------------------------
\* What a finished page loop has stored

\* the trades the exchange holds for target n with tradeTime in [from, to]
Held(n, from, to) ==
  {t \in SeqRange(Exchange(ag.world, n)) : t.tradeTime >= from /\ t.tradeTime <= to}

\* the loop of a target has just ended on an empty or a short page
LoopEndedClean == ag.pc = "target" /\ ag.ended.reason \in {"empty", "short"}

\* C38: historical pagination loses no trade: when a target's page loop ends on an
\* empty or short page without error, every trade the exchange holds for that
\* symbol with tradeTime between the loop's start cursor and the last fetched
\* tradeTime is in the asset store, also when several trades share the millisecond
\* at which a full page ended.
C38_NoTradeLost ==
  LoopEndedClean =>
    Held(ag.ended.target, ag.ended.start, ag.ended.last) \subseteq AgRows(ag.ended.target)

\* a loop ended cleanly and a trade of the millisecond at which a full page
\* ended is not in the store
TradeOfSharedMillisecondLost ==
  /\ LoopEndedClean /\ ag.world = "sameMs" /\ ag.ended.target = 1
  /\ AgTrade(1, 2, AgStartMs - 9) \in AgRows(1)
  /\ AgTrade(1, 3, AgStartMs - 9) \notin AgRows(1)
  /\ AgTrade(1, 4, AgStartMs - 8) \in AgRows(1)

\* where no two trades share a millisecond, nothing is lost
NoTradeLostWithDistinctTimes ==
  ag.world # "sameMs" => C38_NoTradeLost

---------------------------------------------------------------------------
\* The start cursor of scheduled cycles

\* a scheduled cycle has just fixed the start cursor of a target that has a
\* checkpoint
ScheduledLoopBegins ==
  ag.mode = "scheduled" /\ ag.pc = "loop" /\ ag.iterations = 0 /\ ag.checkpoint # Undefined

\* no cycle so far has met an error, a stop or the page limit
CyclesClean ==
  /\ ag.errors = 0 /\ ag.rejected = 0 /\ ag.fetchFailures = 0 /\ ag.saveFailures = 0
  /\ ag.isRunning /\ ag.world # "busy"

\* C40: while the historical collector runs continuously and every cycle completes
\* without error in fewer than 50 pages per target, consecutive cycles leave no gap:
\* the start cursor used for a target in a scheduled cycle is never later than that
\* target's stored checkpoint tradeTime + 1, even though it is floored to
\* now - fetchIntervalMs and a cycle over many targets takes time.
C40_NoGapBetweenCycles ==
  ScheduledLoopBegins /\ CyclesClean => ag.startCursor <= ag.checkpoint.tradeTime + 1

\* the scheduled cycle starts a target after a trade that the exchange holds
\* and the store lacks
TradeSkippedBetweenCycles ==
  /\ ScheduledLoopBegins /\ CyclesClean /\ ag.world = "steady" /\ ag.i = 1
  /\ ag.checkpoint.tradeTime = AgStartMs - 5
  /\ ag.startCursor > AgStartMs + 500
  /\ AgTrade(1, 2, AgStartMs + 500) \notin AgRows(1)

\* the start cursor of a scheduled cycle is the later of checkpoint + 1 and
\* now - fetchIntervalMs
ScheduledCursorIsFloored ==
  ScheduledLoopBegins =>
    ag.startCursor = Max(ag.checkpoint.tradeTime + 1, ag.now - DEFAULT_FETCH_INTERVAL_MS)

\* the skipped trade is still missing when the scheduled cycle has ended
TradeMissingAfterScheduledCycle ==
  /\ ag.mode = "scheduled" /\ ag.pc = "idle" /\ ag.completed = 2 /\ CyclesClean
  /\ ag.world = "steady"
  /\ AgTrade(1, 3, AgStartMs + HourMs) \in AgRows(1)
  /\ AgTrade(1, 2, AgStartMs + 500) \notin AgRows(1)

---------------------------------------------------------------------------
\* sendCvdAlert: posts and history rows

\* the alert_history rows the call in progress, or the last call, has inserted
SvRowsOfCall == {i \in 1..Len(sv.history) : sv.history[i].call = sv.calls}

\* a call posts at most maxRetries times
PostsWithinRetries == sv.posts <= sv.maxRetries

\* a row is inserted only by a call whose post has succeeded, one at a time, as
\* the step with which the call returns
RowOnlyAfterPost ==
  sv'.history # sv.history =>
    /\ sv.posted /\ sv.pc = "save"
    /\ Len(sv'.history) = Len(sv.history) + 1
    /\ sv'.outcome = "returned"

\* a call that has returned has inserted exactly one row
OneRowWhenReturned ==
  sv.outcome = "returned" => Cardinality(SvRowsOfCall) = 1 /\ sv.posted

\* a call none of whose posts succeeded has thrown and inserted no row
ThrowsWithoutRow ==
  /\ sv.pc = "idle" /\ sv.calls > 0 /\ ~ sv.posted
       => sv.outcome = "threw" /\ SvRowsOfCall = {}
  /\ sv.outcome = "threw" => SvRowsOfCall = {}

\* C33: AlertService.sendCvdAlert posts to the webhook at most maxRetries times; it
\* inserts exactly one AlertHistory row only after a post succeeded and before it
\* returns; when every post fails it re-raises the error and inserts no
\* AlertHistory row, so the queue records the failure.
C33_PostsThenHistory ==
  /\ [](PostsWithinRetries /\ OneRowWhenReturned /\ ThrowsWithoutRow)
  /\ [][RowOnlyAfterPost]_vars

\* a call has returned after its last allowed post succeeded, and an earlier
\* call has thrown after all its posts failed
C33_Witness ==
  /\ sv.maxRetries = 3 /\ sv.calls = 2 /\ sv.outcome = "returned"
  /\ sv.posts = 3 /\ sv.alertFailed = 1 /\ Len(sv.history) = 1

---------------------------------------------------------------------------
\* The dispatcher and the worker around stop()

\* stop() was the last call and the pass it waited for, if any, has ended, so
\* stop() has resolved
DispatcherStopped == ~ running /\ ~ processing

\* the processing flag is set exactly while a pass is at one of its awaits
OnePassAtATime == processing <=> pc # "idle"

\* with stop() resolved no timeout of the dispatcher is pending
NoTimerWhenStopped == DispatcherStopped => ~ timerPending /\ orphanTimers = 0

\* with stop() resolved no pass begins, so no batch is fetched and no sink is
\* invoked, until start() is called
NoPassWhenStopped == DispatcherStopped /\ ~ running' => ~ processing'

\* C34: the CVD worker loop and the alert dispatcher loop are non-reentrant: at most
\* one pass is active at any time in each, stop() resolves only after the active
\* pass has ended, and after stop() has resolved no further batch is fetched, no
\* sink is invoked and no poll timer is pending, for any interleaving of start(),
\* timer firings and stop().
C34_QuietAfterStop ==
  /\ [](OnePassAtATime /\ NoTimerWhenStopped)
  /\ [][NoPassWhenStopped]_vars

\* stop() has resolved and a timeout that this.timer no longer names is pending
OrphanTimerAfterStop == DispatcherStopped /\ ~ timerPending /\ orphanTimers > 0

\* the non-reentrance of the dispatcher alone
DispatcherNonReentrant == OnePassAtATime

\* the worker has been stopped, is idle, and a poll timeout is pending
WorkerTimerAfterStop ==
  ~ cw.running /\ ~ cw.processing /\ ~ cw.starting /\ cw.timers > 0

---------------------------------------------------------------------------
\* Progress of the rate limiter

\* a queued item has a task in flight or a timer pending to carry it on
QueueNeverStranded ==
  Len(endpoint.queue) > 0 => inflight # {} \/ endpoint.timer # NoTimer

\* the promise of the i-th request is settled
Settled(i) == Len(requests) >= i /\ requests[i].promise # "pending"

\* every request made is eventually settled
EveryRequestSettles ==
  \A i \in 1..MaxRequests : (Len(requests) >= i) ~> Settled(i)

\* C35: rate limiter progress: whenever an endpoint's queue is non-empty, either a
\* task of that endpoint is in flight or a timer is pending for it; therefore, for a
\* finite set of scheduled requests whose weights are each <= capacity and whose
\* tasks terminate and return 429 only finitely often, every request's promise is
\* eventually settled.
C35_RateLimiterProgress ==
  /\ []QueueNeverStranded
  /\ EveryRequestSettles

\* a request that was answered 429 and waited in the queue behind a timer has
\* been settled after the clock passed the backoff
C35_Witness ==
  /\ \E i \in 1..Len(requests) :
       /\ requests[i].promise = "resolved"
       /\ Len(requests[i].results) = 2 /\ requests[i].results[1] = "r429"
  /\ now > MaxNow
  /\ endpoint.queue = <<>> /\ inflight = {}

---------------------------------------------------------------------------
\* Every alert is processed in the end

Processed(id) == Len(alertQueue) >= id /\ alertQueue[id].processedAt # Null

\* with the dispatcher running, every row of the queue is processed in the end
EveryAlertProcessed ==
  \A id \in 1..MaxAlerts : (running /\ Len(alertQueue) >= id) ~> Processed(id)

\* a processed row was sent with success or has used up its attempts
ProcessedAfterSendOrLimit ==
  \A id \in 1..Len(alertQueue) :
    Processed(id) => sink[id].successes > 0 \/ alertQueue[id].attemptCount >= MaxAttempts

\* a failed send leaves the rest of the batch in place, and a pass of the running
\* dispatcher ends only when the batch is used up
BatchGoesOn ==
  /\ pc \in {"failure", "failureProcessed"} /\ pc' = "loop" => pending' = pending
  /\ pc = "loop" /\ pc' = "idle" /\ running => pending = <<>>

\* C39: every enqueued alert eventually reaches the processed state: while the
\* dispatcher keeps running and store operations succeed, each pending entry has
\* processedAt set after finitely many passes, either after a successful send or
\* after its maxAttempts-th failed send, and a failing entry does not stop later
\* entries of the same batch from being attempted.
C39_EveryAlertProcessed ==
  /\ EveryAlertProcessed
  /\ []ProcessedAfterSendOrLimit
  /\ [][BatchGoesOn]_vars

\* three rows are processed, one of them after its last allowed send failed and
\* one after a send that followed a failed send of the same pass
C39_Witness ==
  /\ running /\ Len(alertQueue) = MaxAlerts
  /\ \A id \in 1..MaxAlerts : Processed(id)
  /\ \E id \in 1..MaxAlerts :
       sink[id].successes = 0 /\ sink[id].sends = MaxAttempts
  /\ \E k \in 1..Len(pass.sent) :
       /\ k > 1 /\ sink[pass.sent[k]].successes > 0
       /\ \E f \in pass.failures : f.id = pass.sent[k - 1]

====
